---------------------------- MODULE Spec2Model ----------------------------
(***************************************************************************)
(* A model of the extraction-and-normalization pipeline of the dart        *)
(* statistics scraper (package parser): the team-name canonicalizer, the   *)
(* numeric sanitizer and the numeric parsing it feeds, the section         *)
(* locator, the table and line extractors of ExtractPlayerStats, and the   *)
(* schedule: its extraction from the text of the PDF, the static fallback, *)
(* their selection in main and the opponent lookup; the loop of main over  *)
(* the standings links with the week number, the cached page and the CSV   *)
(* file of each link; ResolveRelativeURL; and the copies of the schedule   *)
(* functions kept in the single-file program.                              *)
(*                                                                         *)
(* Go strings are TLA+ strings; a character is a string of length 1.       *)
(* Offsets are 0-based where the Go code's are (Index, startIndex,         *)
(* endIndex) and converted at the point of slicing.                        *)
(* The texts of the model are ASCII, so a byte offset is a character       *)
(* offset and letter case is the case of A-Z and a-z.                      *)
(***************************************************************************)
EXTENDS Integers, Sequences, FiniteSets, TLC

VARIABLES
    \* NormalizeTeamName under test
    nName,      \* the argument
    nPc,        \* "idle" | "init" | "one" | "two" | "done"
    nRes,       \* the value returned by the first call
    nRes2,      \* the value returned by a second call on the same argument
    nAgain,     \* the value returned by NormalizeTeamName(nRes)
    \* one table cell through sanitizeNumberString and the row parse
    tok,        \* the text of the cell
    fld,        \* the 1-based position of the cell in its row (3..9)
    san,        \* sanitizeNumberString(tok)
    row,        \* the PlayerStat parsed from the row that holds the cell
    pPc,        \* "idle" | "init" | "sanitized" | "parsed"
    \* one call of ExtractPlayerStats
    htmlContent,    \* the argument
    startIndex,     \* 0-based offset of the start marker, -1 before it is found
    endIndex,       \* the upper bound of the section slice
    sectionHTML,    \* htmlContent[startIndex:endIndex]
    doc,            \* the goquery document parsed from sectionHTML
    playerStats,    \* the player records collected so far
    teamStats,      \* the team records collected so far
    origin,         \* for each player record, the table and row it was read from
    pass,           \* the strategy that produced the records
    pc,             \* the position of the call
    \* one call of isTeamNameLine
    tlLine,     \* the argument
    tlRes,      \* the result
    tlPc,       \* "idle" | "init" | "done"
    \* the same nine values through the table row parse and the line parse
    recVals,    \* the values, as cell texts
    recRow,     \* the PlayerStat of the table row
    recLine,    \* the PlayerStat of the line
    recPc,      \* "idle" | "init" | "done"
    \* the schedule stage of main and one call of FindOpponent
    pdfExists,     \* main: the schedule PDF is already on disk (os.Stat of localPDFPath)
    downloadOk,    \* main: scraper.DownloadPDF would succeed
    readOk,        \* main: parser.ReadPDFText would succeed
    pdfText,       \* main: the text ReadPDFText would return
    schedules,     \* main: the schedule list; the argument of FindOpponent
    foTeam,        \* FindOpponent: the team argument
    foWeek,        \* FindOpponent: the week argument
    opponent,      \* the value FindOpponent returned
    sPc,           \* position in the schedule stage of main
    \* the standings loop of main and one call of ResolveRelativeURL
    standingsURLs, \* main: the absolute URLs of the standings links of the index page
    jLink,         \* main: the 1-based position of the link in process (j + 1)
    week,          \* main: the week number of the link in process
    served,        \* the position of the link whose page htmlContent holds
    htmlFiles,     \* the files standings_week_<n>.html of htmlDir, by week number
    csvFiles,      \* the files player_stats_week_<n>.csv of csvDir, by week number
    weeklyStats,   \* main: the bundles appended to allWeeklyStats
    lPc,           \* position in the standings loop
    rrBase,        \* ResolveRelativeURL: the base argument
    rrRelative,    \* ResolveRelativeURL: the relative argument
    absURL         \* the value ResolveRelativeURL returned

normVars == <<nName, nPc, nRes, nRes2, nAgain>>
numVars == <<tok, fld, san, row, pPc>>

exVars == <<htmlContent, startIndex, endIndex, sectionHTML, doc, playerStats,
            teamStats, origin, pass, pc>>

tlVars == <<tlLine, tlRes, tlPc>>

recVars == <<recVals, recRow, recLine, recPc>>

schVars == <<pdfExists, downloadOk, readOk, pdfText, schedules, foTeam, foWeek, opponent, sPc>>

loopVars ==
    <<standingsURLs, jLink, week, served, htmlFiles, csvFiles, weeklyStats, lPc,
      rrBase, rrRelative, absURL>>

vars == <<normVars, numVars, exVars, tlVars, recVars, schVars, loopVars>>

-----------------------------------------------------------------------------
(* Bounds of the model *)

\* names handed to NormalizeTeamName are built from at most this many fragments
MaxNameFrags == 2

\* cell texts are built from at most this many fragments
MaxTokFrags == 2

\* the length of the longest run of digits among the cell texts
HugeTokenLen == 310

\* the number of lines of other content that may precede the section
FillerLines == 12

\* the number of rows a generated statistics table has after its header row
MaxRows == 2

\* lines handed to isTeamNameLine are built from at most this many fragments
MaxLineFrags == 2

\* the text of the schedule PDF has at most this many lines
MaxScheduleLines == 3

\* a schedule list handed to FindOpponent on its own has at most this many entries
MaxEntries == 2

\* the largest number of standings links on the index page
MaxLinks == 2

-----------------------------------------------------------------------------
(* package strings *)

Char(s, i) == SubSeq(s, i, i)

LowerAlpha == "abcdefghijklmnopqrstuvwxyz"
UpperAlpha == "ABCDEFGHIJKLMNOPQRSTUVWXYZ"
Digits == "0123456789"

\* c occurs in the character class written as the string cls
InClass(c, cls) == \E i \in 1..Len(cls) : Char(cls, i) = c

IsDigit(c) == InClass(c, Digits)
IsUpper(c) == InClass(c, UpperAlpha)
IsLower(c) == InClass(c, LowerAlpha)
IsSpace(c) == c \in {" ", "\t", "\n", "\r"}

ClassPos(c, cls) == CHOOSE i \in 1..Len(cls) : Char(cls, i) = c

ToUpperChar(c) == IF IsLower(c) THEN Char(UpperAlpha, ClassPos(c, LowerAlpha)) ELSE c
ToLowerChar(c) == IF IsUpper(c) THEN Char(LowerAlpha, ClassPos(c, UpperAlpha)) ELSE c

\* Operators that rewrite a string character by character split it in halves,
\* which keeps the depth of the recursion logarithmic in its length.
LeftHalf(s) == SubSeq(s, 1, Len(s) \div 2)
RightHalf(s) == SubSeq(s, Len(s) \div 2 + 1, Len(s))

\* strings.ToUpper, strings.ToLower
RECURSIVE ToUpper(_)
ToUpper(s) ==
    IF Len(s) <= 1 THEN ToUpperChar(s) ELSE ToUpper(LeftHalf(s)) \o ToUpper(RightHalf(s))

RECURSIVE ToLower(_)
ToLower(s) ==
    IF Len(s) <= 1 THEN ToLowerChar(s) ELSE ToLower(LeftHalf(s)) \o ToLower(RightHalf(s))

\* strings.HasPrefix(s[i:], sub), i 0-based
HasPrefixAt(s, i, sub) == i + Len(sub) <= Len(s) /\ SubSeq(s, i + 1, i + Len(sub)) = sub

\* strings.Contains
Contains(s, sub) == \E i \in 0..(Len(s) - Len(sub)) : HasPrefixAt(s, i, sub)

\* strings.Index: the 0-based offset of the first occurrence, or -1
Index(s, sub) ==
    IF Contains(s, sub)
    THEN CHOOSE i \in 0..(Len(s) - Len(sub)) :
            /\ HasPrefixAt(s, i, sub)
            /\ \A j \in 0..(i - 1) : ~HasPrefixAt(s, j, sub)
    ELSE -1

\* strings.TrimSpace
RECURSIVE TrimLeft(_)
TrimLeft(s) == IF s # "" /\ IsSpace(Head(s)) THEN TrimLeft(Tail(s)) ELSE s

RECURSIVE TrimRight(_)
TrimRight(s) ==
    IF s # "" /\ IsSpace(Char(s, Len(s))) THEN TrimRight(SubSeq(s, 1, Len(s) - 1)) ELSE s

TrimSpace(s) == TrimRight(TrimLeft(s))

\* n copies of c
RECURSIVE Repeat(_, _)
Repeat(c, n) ==
    IF n = 0 THEN ""
    ELSE IF n = 1 THEN c
    ELSE Repeat(c, n \div 2) \o Repeat(c, n - n \div 2)

\* the Go slice expression s[lo:hi], lo and hi 0-based, defined for 0 <= lo <= hi <= len(s)
Slice(s, lo, hi) == SubSeq(s, lo + 1, hi)

-----------------------------------------------------------------------------
(* NormalizeTeamName *)

\* regexp.MustCompile(`[^A-Z0-9]`).ReplaceAllString(name, "")
RECURSIVE StripNonAlnum(_)
StripNonAlnum(s) ==
    IF Len(s) <= 1
    THEN (IF IsUpper(s) \/ IsDigit(s) THEN s ELSE "")
    ELSE StripNonAlnum(LeftHalf(s)) \o StripNonAlnum(RightHalf(s))

\* a table whose SIRJAMESPUBDOS entry carries the roster spelling
replacements_roster ==
    [k \in {"THEHUTCH", "HARBORHILLSTOO", "HARBORHILLS2", "HARBORHILLSTWO",
            "HILLSHASEYES", "EYESOFTHEHILL", "SIRJAMESPUBDOS", "SIRJAMESPUB",
            "SPEARSNBEERS"} |->
        CASE k = "THEHUTCH" -> "THE HUTCH"
          [] k = "HARBORHILLSTOO" -> "HARBOR HILLS TOO"
          [] k = "HARBORHILLS2" -> "HARBOR HILLS TOO"
          [] k = "HARBORHILLSTWO" -> "HARBOR HILLS TOO"
          [] k = "HILLSHASEYES" -> "HILLS HAS EYES"
          [] k = "EYESOFTHEHILL" -> "HILLS HAS EYES"
          [] k = "SIRJAMESPUBDOS" -> "SIR JAMES PUB DOS"
          [] k = "SIRJAMESPUB" -> "SIR JAMES PUB"
          [] k = "SPEARSNBEERS" -> "SPEARS N BEERS"]

\* the alias table, a Go map
replacements ==
    [k \in {"THEHUTCH", "HARBORHILLSTOO", "HARBORHILLS2", "HARBORHILLSTWO",
            "HILLSHASEYES", "EYESOFTHEHILL", "SIRJAMESPUBDOS", "SIRJAMESPUB",
            "SPEARSNBEERS"} |->
        CASE k = "THEHUTCH" -> "THE HUTCH"
          [] k = "HARBORHILLSTOO" -> "HARBOR HILLS TOO"
          [] k = "HARBORHILLS2" -> "HARBOR HILLS TOO"
          [] k = "HARBORHILLSTWO" -> "HARBOR HILLS TOO"
          [] k = "HILLSHASEYES" -> "HILLS HAS EYES"
          [] k = "EYESOFTHEHILL" -> "HILLS HAS EYES"
          [] k = "SIRJAMESPUBDOS" -> "SIR JAMES PUB 2"
          [] k = "SIRJAMESPUB" -> "SIR JAMES PUB"
          [] k = "SPEARSNBEERS" -> "SPEARS N BEERS"]

\* The values the loop `for k, v := range replacements` can return for the
\* compressed name: Go iterates a map in an unspecified order that varies from
\* one run of the loop to the next, so the first key found as a substring is
\* any key that is a substring.  The empty set when no key is.
AliasResults(compressed) ==
    LET c == compressed
    IN  {replacements[k] : k \in {a \in DOMAIN replacements : Contains(c, a)}}

\* the Sir James Pub branch tested before the Bridge Inn branch
NormalizeTeamName_sirJamesFirst(name) ==
    LET originalName == ToUpper(name)
        has(sub) == Contains(originalName, sub)
    IN  IF has("SIR JAMES PUB 1") \/ (has("SIR JAMES PUB") /\ has("1") /\ ~has("DOS"))
        THEN {"SIR JAMES PUB 1"}
        ELSE IF has("SIR JAMES PUB 2")
                \/ (has("SIR JAMES PUB") /\ (has("2") \/ has("DOS")) /\ ~has("3"))
        THEN {"SIR JAMES PUB 2"}
        ELSE IF has("SIR JAMES PUB 3") \/ (has("SIR JAMES PUB") /\ has("3"))
        THEN {"SIR JAMES PUB 3"}
        ELSE IF has("BRIDGE INN 1") \/ (has("BRIDGE INN") /\ has("1"))
        THEN {"BRIDGE INN 1"}
        ELSE IF has("BRIDGE INN 2") \/ (has("BRIDGE INN") /\ has("2"))
        THEN {"BRIDGE INN 2"}
        ELSE LET aliases == AliasResults(StripNonAlnum(originalName))
             IN  IF aliases # {} THEN aliases ELSE {originalName}

\* NormalizeTeamName(name): the set of strings one call can return (a single
\* string unless the compressed name holds several alias keys).
NormalizeTeamName(name) ==
    LET originalName == ToUpper(name)
        has(sub) == Contains(originalName, sub)
    IN  IF has("BRIDGE INN 1") \/ (has("BRIDGE INN") /\ has("1"))
        THEN {"BRIDGE INN 1"}
        ELSE IF has("BRIDGE INN 2") \/ (has("BRIDGE INN") /\ has("2"))
        THEN {"BRIDGE INN 2"}
        ELSE IF has("SIR JAMES PUB 1") \/ (has("SIR JAMES PUB") /\ has("1") /\ ~has("DOS"))
        THEN {"SIR JAMES PUB 1"}
        ELSE IF has("SIR JAMES PUB 2")
                \/ (has("SIR JAMES PUB") /\ (has("2") \/ has("DOS")) /\ ~has("3"))
        THEN {"SIR JAMES PUB 2"}
        ELSE IF has("SIR JAMES PUB 3") \/ (has("SIR JAMES PUB") /\ has("3"))
        THEN {"SIR JAMES PUB 3"}
        ELSE LET aliases == AliasResults(StripNonAlnum(originalName))
             IN  IF aliases # {} THEN aliases ELSE {originalName}

-----------------------------------------------------------------------------
(* Inputs of the canonicalizer *)

NameFrags ==
    {"", "BRIDGE INN", "Bridge Inn 1", " 2", "1", "3", "SIR JAMES PUB", " DOS",
     "SIRJAMESPUBDOS", "harborhillstoo", "THEHUTCH", "Redheads", "Grand Ave."}

RECURSIVE NamesOf(_)
NamesOf(n) == IF n = 0 THEN {""} ELSE {p \o f : p \in NamesOf(n - 1), f \in NameFrags}

\* the keys of the alias table as written and in other letter cases, and the
\* roster of ParseScheduleManually
KnownNames ==
    {"THEHUTCH", "HARBORHILLSTOO", "HARBORHILLS2", "HARBORHILLSTWO", "HILLSHASEYES",
     "EYESOFTHEHILL", "SIRJAMESPUBDOS", "SIRJAMESPUB", "SPEARSNBEERS",
     "thehutch", "HarborHillsTwo", "hillshaseyes", "eyesofthehill", "sirjamespub",
     "Spears-N-Beers", "THE HUTCH", "CAPITALIZE", "GRAND AVE", "HARBOR HILLS",
     "HARBOR HILLS TOO", "HILLS HAS EYES", "REDHEADS", "SIR JAMES PUB DOS",
     "SPEARS N BEERS", "BYE"}

NameInputs == NamesOf(MaxNameFrags) \cup KnownNames

-----------------------------------------------------------------------------
(* sanitizeNumberString and the numeric parsing of strconv *)

\* the loop of sanitizeNumberString: result collects, in order, the
\* characters c of s with (c >= '0' && c <= '9') || c == '.'
RECURSIVE sanitizeLoop(_)
sanitizeLoop(s) ==
    IF Len(s) <= 1
    THEN (IF IsDigit(s) \/ s = "." THEN s ELSE "")
    ELSE sanitizeLoop(LeftHalf(s)) \o sanitizeLoop(RightHalf(s))

\* a sanitizer that keeps the digits only
sanitizeNumberString_digitsOnly(s) == sanitizeLoop(StripNonAlnum(TrimSpace(s)))

sanitizeNumberString(s) == sanitizeLoop(TrimSpace(s))

AllDigits(s) == \A i \in 1..Len(s) : IsDigit(Char(s, i))

RECURSIVE StripLeadingZeros(_)
StripLeadingZeros(d) ==
    IF Len(d) > 1 /\ Head(d) = "0" THEN StripLeadingZeros(Tail(d)) ELSE d

RECURSIVE StripTrailingZeros(_)
StripTrailingZeros(d) ==
    IF d # "" /\ Char(d, Len(d)) = "0"
    THEN StripTrailingZeros(SubSeq(d, 1, Len(d) - 1))
    ELSE d

\* a < b for digit strings of the same length
DigitsLess(a, b) ==
    \E i \in 1..Len(a) :
        /\ ClassPos(Char(a, i), Digits) < ClassPos(Char(b, i), Digits)
        /\ SubSeq(a, 1, i - 1) = SubSeq(b, 1, i - 1)

\* a > b for digit strings without leading zeros
MagGreater(a, b) == Len(a) > Len(b) \/ (Len(a) = Len(b) /\ DigitsLess(b, a))

\* Integers are decimal strings in canonical form ("0", "10", "-5"), so that
\* the 64-bit range of Go's int is kept exactly.
MaxInt64 == "9223372036854775807"
MinInt64Magnitude == "9223372036854775808"

\* strconv.Atoi on a platform whose int has 64 bits: the value and the kind of
\* error ("none", "syntax", "range").  Out of range, Atoi returns the nearest
\* representable integer together with the error.
Atoi(s) ==
    LET signed == s # "" /\ Head(s) \in {"+", "-"}
        neg == s # "" /\ Head(s) = "-"
        body == IF signed THEN Tail(s) ELSE s
    IN  IF body = "" \/ ~AllDigits(body)
        THEN [val |-> "0", err |-> "syntax"]
        ELSE LET d == StripLeadingZeros(body)
             IN  IF ~neg /\ MagGreater(d, MaxInt64)
                 THEN [val |-> MaxInt64, err |-> "range"]
                 ELSE IF neg /\ MagGreater(d, MinInt64Magnitude)
                 THEN [val |-> "-" \o MinInt64Magnitude, err |-> "range"]
                 ELSE [val |-> IF neg /\ d # "0" THEN "-" \o d ELSE d, err |-> "none"]

\* 2^1024 - 2^970: a decimal whose integer part reaches it rounds to infinity
FloatOverflowAt ==
    "179769313486231580793728971405303415079934132710037826936173778980444968"
    \o "292764750946649017977587207096330286416692887910946555547851940402630657"
    \o "488671505820681908902000708383676273854845817711531764475730270069855571"
    \o "366959622842914819860834936475292719074168444365510704342711559699508093"
    \o "042880177904174497792"

\* strconv.ParseFloat(s, 64) on an optional sign followed by a decimal numeral
\* (digits with at most one point and at least one digit) or by inf, infinity
\* or nan; every other text is a syntax error here (exponents and hexadecimal
\* numerals, which ParseFloat accepts, are not among the texts the model
\* feeds it).  Floats are decimal strings in canonical form ("0", "2.5",
\* "+Inf"); the texts of the model have few enough digits for distinct
\* canonical strings to be distinct float64 values.
ParseFloat(s) ==
    LET signed == s # "" /\ Head(s) \in {"+", "-"}
        neg == s # "" /\ Head(s) = "-"
        body == IF signed THEN Tail(s) ELSE s
        dot == Index(body, ".")
        ip == IF dot = -1 THEN body ELSE Slice(body, 0, dot)
        fp == IF dot = -1 THEN "" ELSE Slice(body, dot + 1, Len(body))
        sgn == IF neg THEN "-" ELSE ""
    IN  IF ToLower(body) \in {"inf", "infinity"}
        THEN [val |-> (IF neg THEN "-" ELSE "+") \o "Inf", err |-> "none"]
        ELSE IF ~signed /\ ToLower(body) = "nan"
        THEN [val |-> "NaN", err |-> "none"]
        ELSE IF ~AllDigits(ip) \/ ~AllDigits(fp) \/ ip \o fp = ""
        THEN [val |-> "0", err |-> "syntax"]
        ELSE LET i == StripLeadingZeros(IF ip = "" THEN "0" ELSE ip)
                 f == StripTrailingZeros(fp)
             IN  IF ~MagGreater(FloatOverflowAt, i)
                 THEN [val |-> (IF neg THEN "-" ELSE "+") \o "Inf", err |-> "range"]
                 ELSE [val |-> sgn \o i \o (IF f = "" THEN "" ELSE "." \o f),
                       err |-> "none"]

-----------------------------------------------------------------------------
(* models.PlayerStat and the positional parse of a table row *)

\* the zero value of models.PlayerStat
ZeroPlayerStat ==
    [PlayerName |-> "", Team |-> "", Opponent |-> "", SancPd |-> "",
     GamesPlayed |-> "0", GamesWon |-> "0", PPD |-> "0", MPR |-> "0",
     HatTricks |-> "0", HighScore |-> "0", HighCheckout |-> "0"]

\* `x, _ = strconv.Atoi(sanitizeNumberString(cell))`
intCell(cell) == Atoi(sanitizeNumberString(cell)).val

\* `x, _ = strconv.ParseFloat(sanitizeNumberString(cell), 64)`
floatCell(cell) == ParseFloat(sanitizeNumberString(cell)).val

\* The PlayerStat that extractPlayerStatsFromTable builds from the cell texts
\* of a row (cellTexts[0] in Go is cellTexts[1] here) and the team context.
tablePlayerStat(cellTexts, team) ==
    LET n == Len(cellTexts)
    IN  [PlayerName |-> cellTexts[1],
         Team |-> team,
         Opponent |-> "",
         SancPd |-> IF n > 1 THEN cellTexts[2] ELSE "",
         GamesPlayed |-> IF n > 2 THEN intCell(cellTexts[3]) ELSE "0",
         GamesWon |-> IF n > 3 THEN intCell(cellTexts[4]) ELSE "0",
         PPD |-> IF n > 4 THEN floatCell(cellTexts[5]) ELSE "0",
         MPR |-> IF n > 5 THEN floatCell(cellTexts[6]) ELSE "0",
         HatTricks |-> IF n > 6 THEN intCell(cellTexts[7]) ELSE "0",
         HighScore |-> IF n > 7 THEN intCell(cellTexts[8]) ELSE "0",
         HighCheckout |-> IF n > 8 THEN intCell(cellTexts[9]) ELSE "0"]

-----------------------------------------------------------------------------
(* goquery: the tables, rows and cells of an HTML text.  A document is the
   sequence of its tables, a table the sequence of its rows, a row the
   sequence of its cells, a cell its tag (td or th) and its text.  The texts
   modelled hold the tags table, tr, td and th without attributes of interest;
   any other tag is markup inside the text around it; a tag that the end of
   the text cuts short is dropped with what follows it. *)

\* the position of the '>' that closes the tag opened at p; 0 when there is none
TagCloseOf(s, p) ==
    IF \E q \in (p + 1)..Len(s) : Char(s, q) = ">"
    THEN CHOOSE q \in (p + 1)..Len(s) :
            /\ Char(s, q) = ">"
            /\ \A r \in (p + 1)..(q - 1) : Char(s, r) # ">"
    ELSE 0

\* the lowercased name of the tag whose body is b: "td", "/td", ...
TagName(b) ==
    LET sp == Index(b, " ")
    IN  ToLower(IF sp = -1 THEN b ELSE Slice(b, 0, sp))

\* the tag opened at p: its name and the positions of its '<' and '>'
TagAt(s, p) ==
    LET q == TagCloseOf(s, p)
    IN  IF q = 0 THEN [name |-> "", from |-> p, to |-> Len(s)]
        ELSE [name |-> TagName(SubSeq(s, p + 1, q - 1)), from |-> p, to |-> q]

\* the tags of s between positions lo and hi, in order
RECURSIVE TagsIn(_, _, _)
TagsIn(s, lo, hi) ==
    IF lo > hi THEN <<>>
    ELSE IF lo = hi THEN (IF Char(s, lo) = "<" THEN <<TagAt(s, lo)>> ELSE <<>>)
    ELSE LET mid == (lo + hi) \div 2
         IN  TagsIn(s, lo, mid) \o TagsIn(s, mid + 1, hi)

\* the first index in lo..hi of a tag whose name is in names; hi + 1 when none
NextTag(T, lo, hi, names) ==
    IF \E j \in lo..hi : T[j].name \in names
    THEN CHOOSE j \in lo..hi :
            /\ T[j].name \in names
            /\ \A i \in lo..(j - 1) : T[i].name \notin names
    ELSE hi + 1

\* the text between tags c and d, the tags between them left out
RECURSIVE TextBetween(_, _, _, _)
TextBetween(s, T, c, d) ==
    IF c >= d THEN ""
    ELSE LET upto == IF c + 1 > Len(T) THEN Len(s) ELSE T[c + 1].from - 1
         IN  SubSeq(s, T[c].to + 1, upto) \o TextBetween(s, T, c + 1, d)

\* the cells opened by the tags lo..hi of a row that ends before tag e
RECURSIVE CellsIn(_, _, _, _, _)
CellsIn(s, T, lo, hi, e) ==
    IF lo > hi THEN <<>>
    ELSE IF lo = hi
    THEN IF T[lo].name \in {"td", "th"}
         THEN <<[tag |-> T[lo].name,
                 text |-> TextBetween(s, T, lo,
                              NextTag(T, lo + 1, e - 1, {"td", "th", "/td", "/th"}))]>>
         ELSE <<>>
    ELSE LET mid == (lo + hi) \div 2
         IN  CellsIn(s, T, lo, mid, e) \o CellsIn(s, T, mid + 1, hi, e)

\* the cells of the row opened by tag a, in a table that ends before tag e
CellsInRow(s, T, a, e) ==
    LET rowEnd == NextTag(T, a + 1, e - 1, {"tr", "/tr"})
    IN  CellsIn(s, T, a + 1, rowEnd - 1, rowEnd)

\* the rows opened by the tags lo..hi of a table that ends before tag e
RECURSIVE RowsIn(_, _, _, _, _)
RowsIn(s, T, lo, hi, e) ==
    IF lo > hi THEN <<>>
    ELSE IF lo = hi
    THEN IF T[lo].name = "tr"
         THEN <<CellsInRow(s, T, lo, e)>>
         ELSE <<>>
    ELSE LET mid == (lo + hi) \div 2
         IN  RowsIn(s, T, lo, mid, e) \o RowsIn(s, T, mid + 1, hi, e)

\* the tables opened by the tags lo..hi
RECURSIVE TablesIn(_, _, _, _)
TablesIn(s, T, lo, hi) ==
    IF lo > hi THEN <<>>
    ELSE IF lo = hi
    THEN IF T[lo].name = "table"
         THEN LET e == NextTag(T, lo + 1, Len(T), {"/table"})
              IN  <<RowsIn(s, T, lo + 1, e - 1, e)>>
         ELSE <<>>
    ELSE LET mid == (lo + hi) \div 2
         IN  TablesIn(s, T, lo, mid) \o TablesIn(s, T, mid + 1, hi)

\* goquery.NewDocumentFromReader, as far as doc.Find("table") and Find("tr")
\* see the result
NewDocument(s) ==
    LET T == TagsIn(s, 1, Len(s))
    IN  TablesIn(s, T, 1, Len(T))

\* row.Text(): the texts of the cells of a row, joined
RECURSIVE RowText(_)
RowText(tr) == IF tr = <<>> THEN "" ELSE Head(tr).text \o RowText(Tail(tr))

\* the trimmed texts of the cells of a row whose tag is in tags, in order
RECURSIVE CellTexts(_, _)
CellTexts(tr, tags) ==
    IF tr = <<>> THEN <<>>
    ELSE (IF Head(tr).tag \in tags THEN <<TrimSpace(Head(tr).text)>> ELSE <<>>)
         \o CellTexts(Tail(tr), tags)

-----------------------------------------------------------------------------
(* isTeamNameLine and extractPlayerStatsFromTable *)

isTeamNameLine(text) ==
    LET line == TrimSpace(text)
        hasLetter == \E i \in 1..Len(line) : IsUpper(Char(line, i))
        hasNumber == \E i \in 1..Len(line) : IsDigit(Char(line, i))
    IN  IF Len(line) < 3 \/ Len(line) > 40 THEN FALSE
        ELSE IF Contains(ToUpper(line), "BRIDGE INN") THEN TRUE
        ELSE IF hasNumber /\ ~Contains(line, "1") /\ ~Contains(line, "2") THEN FALSE
        ELSE /\ hasLetter
             /\ ~Contains(line, "Player")
             /\ ~Contains(line, "Team Totals")
             /\ ~Contains(line, "PPD")
             /\ ~Contains(line, "MPR")
             /\ ~Contains(line, "Wins")
             /\ ~Contains(line, "Games")

\* headers: the trimmed texts of the td and th cells of the table's first row
tableHeaders(table) ==
    IF table = <<>> THEN <<>> ELSE CellTexts(table[1], {"td", "th"})

hasPlayerColumn(headers) == \E i \in 1..Len(headers) : Contains(headers[i], "Player")

hasPPDColumn(headers) == \E i \in 1..Len(headers) : Contains(headers[i], "PPD")

\* the header loop assigns at every header that names Bridge Inn: the last
\* such header decides
teamNameFromHeader(headers) ==
    LET named == {i \in 1..Len(headers) : Contains(headers[i], "BRIDGE INN")}
    IN  IF named = {} THEN ""
        ELSE LET header == headers[CHOOSE i \in named : \A j \in named : j <= i]
             IN  IF Contains(header, "1") THEN "BRIDGE INN 1"
                 ELSE IF Contains(header, "2") THEN "BRIDGE INN 2"
                 ELSE "BRIDGE INN"

\* whether a row with these td texts yields a player record
isPlayerRow(cellTexts) ==
    /\ Len(cellTexts) >= 7
    /\ cellTexts[1] # ""
    /\ cellTexts[1] # "Player"
    /\ ~Contains(cellTexts[1], "Team Totals")
    /\ ~Contains(ToLower(cellTexts[1]), "player")
    /\ cellTexts[1] # "Combined"

\* a team-row test that counts fewer than three cells
isTeamRow_underThree(tr) ==
    /\ Len(CellTexts(tr, {"td"})) < 3
    /\ isTeamNameLine(TrimSpace(RowText(tr)))

\* whether a row replaces the team context
isTeamRow(tr) ==
    /\ Len(CellTexts(tr, {"td"})) <= 3
    /\ isTeamNameLine(TrimSpace(RowText(tr)))

\* the row callback over rows rowIdx.. of table t (rowIdx counts from 1 here,
\* the header row is row 1): the records appended, each with the table and row
\* it came from
RECURSIVE scanRows(_, _, _, _)
scanRows(table, t, rowIdx, currentTeam) ==
    IF rowIdx > Len(table) THEN <<>>
    ELSE LET tr == table[rowIdx]
             cellTexts == CellTexts(tr, {"td"})
         IN  IF isTeamRow(tr)
             THEN scanRows(table, t, rowIdx + 1, TrimSpace(RowText(tr)))
             ELSE IF isPlayerRow(cellTexts)
             THEN <<[stat |-> tablePlayerStat(cellTexts, currentTeam),
                     table |-> t, row |-> rowIdx]>>
                  \o scanRows(table, t, rowIdx + 1, currentTeam)
             ELSE scanRows(table, t, rowIdx + 1, currentTeam)

\* the table callback over tables t.. of the document
RECURSIVE scanTables(_, _, _)
scanTables(dom, t, defaultTeam) ==
    IF t > Len(dom) THEN <<>>
    ELSE LET headers == tableHeaders(dom[t])
             fromHeader == teamNameFromHeader(headers)
             currentTeam == IF fromHeader # "" THEN fromHeader ELSE defaultTeam
         IN  (IF hasPlayerColumn(headers) /\ hasPPDColumn(headers)
              THEN scanRows(dom[t], t, 2, currentTeam)
              ELSE <<>>)
             \o scanTables(dom, t + 1, defaultTeam)

\* the second pass, taken when the first found nothing: every row of the
\* document whose text holds one of four first names
hasCommonName(rowText) ==
    \/ Contains(rowText, "MITCH")
    \/ Contains(rowText, "STEVE")
    \/ Contains(rowText, "JOHN")
    \/ Contains(rowText, "MIKE")

RECURSIVE directRows(_, _, _, _)
directRows(dom, t, rowIdx, defaultTeam) ==
    IF t > Len(dom) THEN <<>>
    ELSE IF rowIdx > Len(dom[t]) THEN directRows(dom, t + 1, 1, defaultTeam)
    ELSE LET tr == dom[t][rowIdx]
             rowText == TrimSpace(RowText(tr))
             cellTexts == CellTexts(tr, {"td"})
         IN  (IF /\ rowText # ""
                 /\ ~Contains(ToLower(rowText), "player")
                 /\ ~Contains(ToLower(rowText), "team totals")
                 /\ hasCommonName(rowText)
                 /\ Len(cellTexts) >= 7
              THEN <<[stat |-> tablePlayerStat(cellTexts, defaultTeam),
                      table |-> t, row |-> rowIdx]>>
              ELSE <<>>)
             \o directRows(dom, t, rowIdx + 1, defaultTeam)

\* an extractor whose second pass runs whatever the first pass found
extractPlayerStatsFromTable_bothPasses(dom, defaultTeam) ==
    LET first == scanTables(dom, 1, defaultTeam)
        second == directRows(dom, 1, 1, defaultTeam)
    IN  IF first # <<>>
        THEN [found |-> first \o second, pass |-> "table"]
        ELSE [found |-> second, pass |-> "direct"]

\* extractPlayerStatsFromTable: the records, and the pass that found them
extractPlayerStatsFromTable(dom, defaultTeam) ==
    LET first == scanTables(dom, 1, defaultTeam)
    IN  IF first # <<>> THEN [found |-> first, pass |-> "table"]
        ELSE [found |-> directRows(dom, 1, 1, defaultTeam), pass |-> "direct"]

-----------------------------------------------------------------------------
(* The line-by-line pass: extractTeamName, parsePlayerStatsLine,
   parseTeamTotalsLine and the loop of ExtractPlayerStats over the lines *)

\* the positions lo..hi of s that hold the character c, in order
RECURSIVE PositionsOf(_, _, _, _)
PositionsOf(s, c, lo, hi) ==
    IF lo > hi THEN <<>>
    ELSE IF lo = hi THEN (IF Char(s, lo) = c THEN <<lo>> ELSE <<>>)
    ELSE LET mid == (lo + hi) \div 2
         IN  PositionsOf(s, c, lo, mid) \o PositionsOf(s, c, mid + 1, hi)

\* strings.Split(s, "\n")
SplitLines(s) ==
    LET nl == PositionsOf(s, "\n", 1, Len(s))
        n == Len(nl)
    IN  [k \in 1..(n + 1) |->
            SubSeq(s, (IF k = 1 THEN 1 ELSE nl[k - 1] + 1),
                      (IF k = n + 1 THEN Len(s) ELSE nl[k] - 1))]

\* the maximal runs of non-space characters that start in lo..hi, in order
RECURSIVE WordsIn(_, _, _)
WordsIn(s, lo, hi) ==
    IF lo > hi THEN <<>>
    ELSE IF lo = hi
    THEN IF ~IsSpace(Char(s, lo)) /\ (lo = 1 \/ IsSpace(Char(s, lo - 1)))
         THEN LET stop == IF \E q \in lo..Len(s) : IsSpace(Char(s, q))
                          THEN CHOOSE q \in lo..Len(s) :
                                  /\ IsSpace(Char(s, q))
                                  /\ \A r \in lo..(q - 1) : ~IsSpace(Char(s, r))
                          ELSE Len(s) + 1
              IN  <<SubSeq(s, lo, stop - 1)>>
         ELSE <<>>
    ELSE LET mid == (lo + hi) \div 2
         IN  WordsIn(s, lo, mid) \o WordsIn(s, mid + 1, hi)

\* regexp `\s+` Split(line, -1): an empty field stands before leading and
\* after trailing white space, and the empty line is one empty field
SplitFields(line) ==
    IF line = "" THEN <<"">>
    ELSE (IF IsSpace(Char(line, 1)) THEN <<"">> ELSE <<>>)
         \o WordsIn(line, 1, Len(line))
         \o (IF IsSpace(Char(line, Len(line))) THEN <<"">> ELSE <<>>)

\* strings.Replace(s, old, "", 1)
RemoveFirst(s, old) ==
    LET i == Index(s, old)
    IN  IF i = -1 THEN s ELSE Slice(s, 0, i) \o Slice(s, i + Len(old), Len(s))

\* regexp `[^\w\s]` ReplaceAllString(s, "")
RECURSIVE StripNonWord(_)
StripNonWord(s) ==
    IF s = "" THEN ""
    ELSE IF Len(s) = 1
    THEN IF IsDigit(s) \/ IsUpper(s) \/ IsLower(s) \/ s = "_" \/ IsSpace(s) THEN s ELSE ""
    ELSE StripNonWord(LeftHalf(s)) \o StripNonWord(RightHalf(s))

extractTeamName(line) ==
    LET teamName == RemoveFirst(TrimSpace(line), "Team:")
        upperLine == ToUpper(teamName)
        has(sub) == Contains(upperLine, sub)
        rest == TrimSpace(StripNonWord(teamName))
        sirJames ==
            IF has("SIR JAMES PUB")
            THEN IF has("1") /\ ~has("DOS") THEN "SIR JAMES PUB 1"
                 ELSE IF has("2") \/ (has("DOS") /\ ~has("3")) THEN "SIR JAMES PUB 2"
                 ELSE IF has("3") THEN "SIR JAMES PUB 3"
                 ELSE rest
            ELSE rest
    IN  IF has("BRIDGE INN")
        THEN IF has("1") \/ (has("I") /\ ~has("II")) THEN "BRIDGE INN 1"
             ELSE IF has("2") \/ has("II") THEN "BRIDGE INN 2"
             ELSE sirJames
        ELSE sirJames

isPlayerRating(s) ==
    Len(s) <= 3 /\ \A i \in 1..Len(s) : IsUpper(Char(s, i))

\* the fields parsed from position base on (base is the position of the
\* sanctioned-rating field, 1-based)
lineStatFrom(fields, base, sancPd) ==
    LET n == Len(fields)
        int(k) == IF base + k <= n THEN Atoi(fields[base + k]).val ELSE "0"
        float(k) == IF base + k <= n THEN ParseFloat(fields[base + k]).val ELSE "0"
    IN  [PlayerName |-> fields[1],
         Team |-> "",
         Opponent |-> "",
         SancPd |-> sancPd,
         GamesPlayed |-> int(1),
         GamesWon |-> int(2),
         PPD |-> float(3),
         MPR |-> float(4),
         HatTricks |-> int(5),
         HighScore |-> int(6),
         HighCheckout |-> int(7)]

parsePlayerStatsLine(line) ==
    LET fields == SplitFields(line)
        ratings == {i \in 2..Len(fields) : isPlayerRating(fields[i])}
    IN  IF Len(fields) < 7 THEN ZeroPlayerStat
        ELSE IF ratings = {}
        THEN lineStatFrom(fields, 2, fields[2])
        ELSE LET ratingIndex == CHOOSE i \in ratings : \A j \in ratings : i <= j
             IN  lineStatFrom(fields, ratingIndex, fields[ratingIndex])

\* the zero value of models.TeamStat
ZeroTeamStat ==
    [TeamName |-> "", GamesPlayed |-> "0", GamesWon |-> "0", PPD |-> "0", MPR |-> "0"]

parseTeamTotalsLine(line) ==
    LET fields == SplitFields(line)
        marks == {i \in 1..Len(fields) : Contains(fields[i], "Totals:")}
        first == CHOOSE i \in marks : \A j \in marks : i <= j
        dataFields == IF marks = {} THEN <<>>
                      ELSE SelectSeq(SubSeq(fields, first + 1, Len(fields)),
                                     LAMBDA f : f # "")
    IN  IF ~Contains(line, "Team Totals:") THEN ZeroTeamStat
        ELSE IF Len(fields) < 5 THEN ZeroTeamStat
        ELSE IF Len(dataFields) < 4 THEN ZeroTeamStat
        ELSE [TeamName |-> "TEAM",
              GamesPlayed |-> Atoi(dataFields[1]).val,
              GamesWon |-> Atoi(dataFields[2]).val,
              PPD |-> ParseFloat(dataFields[3]).val,
              MPR |-> ParseFloat(dataFields[4]).val]

\* the loop over the lines k.. : the player records and team records appended
RECURSIVE scanLines(_, _, _)
scanLines(lines, k, teamName) ==
    IF k > Len(lines) THEN [players |-> <<>>, teams |-> <<>>]
    ELSE LET line == TrimSpace(lines[k])
         IN  IF isTeamNameLine(line)
             THEN scanLines(lines, k + 1, extractTeamName(line))
             ELSE IF \/ line = ""
                     \/ Contains(line, "Player")
                     \/ Contains(line, "-----")
                     \/ Contains(line, "Team Totals:")
             THEN scanLines(lines, k + 1, teamName)
             ELSE LET playerStat == parsePlayerStatsLine(line)
                      teamStat == parseTeamTotalsLine(line)
                      rest == scanLines(lines, k + 1, teamName)
                  IN  [players |->
                          (IF playerStat.PlayerName # ""
                           THEN <<[playerStat EXCEPT !.Team = teamName]>>
                           ELSE <<>>) \o rest.players,
                       teams |->
                          (IF Contains(line, "Team Totals:") /\ teamStat.TeamName # ""
                           THEN <<[teamStat EXCEPT !.TeamName = teamName]>>
                           ELSE <<>>) \o rest.teams]

-----------------------------------------------------------------------------
(* Inputs of the sanitizer and of the row parse *)

TokFrags == {"", "1", "0", "25", ".", "-", " ", ",", "a", "%"}

RECURSIVE TokensOf(_)
TokensOf(n) == IF n = 0 THEN {""} ELSE {p \o f : p \in TokensOf(n - 1), f \in TokFrags}

SpecialTokens ==
    {"1.2.3", "N/A", "1,234.5", "$2.50", "\t12\n", "007", "+4",
     "9223372036854775807", "9223372036854775808", "99999999999999999999",
     Repeat("9", HugeTokenLen)}

TokenInputs == TokensOf(MaxTokFrags) \cup SpecialTokens

\* a well-formed row of nine cells
BaseRow == <<"JOHN DOE", "AA", "10", "7", "2.50", "1.20", "1", "100", "50">>

RowWith(i, cell) == [j \in 1..Len(BaseRow) |-> IF j = i THEN cell ELSE BaseRow[j]]

\* the numeric fields, by 1-based cell position
NumericFields == 3..9
FloatFields == {5, 6}

FieldOf(stat, i) ==
    CASE i = 3 -> stat.GamesPlayed
      [] i = 4 -> stat.GamesWon
      [] i = 5 -> stat.PPD
      [] i = 6 -> stat.MPR
      [] i = 7 -> stat.HatTricks
      [] i = 8 -> stat.HighScore
      [] i = 9 -> stat.HighCheckout

-----------------------------------------------------------------------------
(* ExtractPlayerStats: the section between the markers *)

startMarker == "Combined X01/Cricket games, sorted by Team + PPD:"

endMarker == "Most Improved Players for week"

alternatePossibleMarkers ==
    <<"All X01 games, sorted by PPD:",
      "X01/Cricket games, sorted by Team",
      "Combined X01/Cricket games",
      "X01 games, sorted by PPD">>

\* a search that takes the alternate marker that occurs first in the text
findStartIndex_earliestInText(text) ==
    LET i == Index(text, startMarker)
        at == {Index(text, alternatePossibleMarkers[k]) :
                  k \in 1..Len(alternatePossibleMarkers)} \ {-1}
    IN  IF i # -1 THEN i
        ELSE IF at = {} THEN -1
        ELSE CHOOSE a \in at : \A b \in at : a <= b

\* startIndex after the search for the start marker and, failing that, for
\* the alternate markers in the order of their list
findStartIndex(text) ==
    LET i == Index(text, startMarker)
        found == {k \in 1..Len(alternatePossibleMarkers) :
                     Index(text, alternatePossibleMarkers[k]) # -1}
    IN  IF i # -1 THEN i
        ELSE IF found = {} THEN -1
        ELSE Index(text,
                   alternatePossibleMarkers[CHOOSE k \in found : \A j \in found : k <= j])

\* endIndex for a text whose section starts at start
findEndIndex(text, start) ==
    LET i == Index(Slice(text, start, Len(text)), endMarker)
    IN  IF i = -1 THEN Len(text) - start ELSE i + start

\* the records with Steve Wheelock assigned to Bridge Inn 2
correctTeams(stats) ==
    [i \in 1..Len(stats) |->
        IF ToUpper(stats[i].PlayerName) = "STEVE WHEELOCK"
        THEN [stats[i] EXCEPT !.Team = "BRIDGE INN 2"]
        ELSE stats[i]]

-----------------------------------------------------------------------------
(* The documents handed to ExtractPlayerStats *)

\* what precedes the section: nothing, the opening of a page, a page of other
\* content, a page that holds last week's end marker
FillerLine == "<p>League standings and results</p>\n"

DocHeads ==
    {"",
     "<html><body>\n",
     "<html><body>\n" \o Repeat(FillerLine, FillerLines),
     "<html><body>\n<h3>Most Improved Players for week 4</h3>\n"}

\* the heading of the section
DocHeadings ==
    {"<h3>Results</h3>\n",
     "<h3>" \o startMarker \o "</h3>\n",
     "<h3>Combined X01/Cricket games, sorted by Team</h3>\n",
     "<h3>All X01 games, sorted by PPD:</h3>\n",
     "<h3>X01 games, sorted by PPD</h3>\n"}

HeaderRow ==
    "<tr><th>Player</th><th>Sanc</th><th>Games</th><th>Wins</th><th>PPD</th>"
    \o "<th>MPR</th><th>Hats</th></tr>\n"

\* a header row that names a team
HeaderRowWithTeam ==
    "<tr><th>BRIDGE INN 1</th><th>Player</th><th>Games</th><th>Wins</th><th>PPD</th>"
    \o "<th>MPR</th><th>Hats</th></tr>\n"

\* a header row without the Player and PPD columns
HeaderRowOther == "<tr><th>Name</th><th>Rating</th><th>Average</th></tr>\n"

TeamRow == "<tr><td>REDHEADS</td></tr>\n"

TeamRowThreeCells == "<tr><td>THE HUTCH</td><td></td><td></td></tr>\n"

PlayerRow ==
    "<tr><td>JOHN DOE</td><td>AA</td><td>10</td><td>7</td><td>2.50</td>"
    \o "<td>1.20</td><td>1</td></tr>\n"

WheelockRow ==
    "<tr><td>Steve Wheelock</td><td>A</td><td>12</td><td>5</td><td>1.90</td>"
    \o "<td>1.10</td><td>0</td><td>98</td><td>40</td></tr>\n"

TotalsRow ==
    "<tr><td>Team Totals:</td><td></td><td>22</td><td>12</td><td>2.20</td>"
    \o "<td>1.15</td><td>1</td></tr>\n"

RowPool == {TeamRow, TeamRowThreeCells, PlayerRow, WheelockRow, TotalsRow}

RECURSIVE RowsOf(_)
RowsOf(n) == IF n = 0 THEN {""} ELSE {""} \cup {p \o r : p \in RowsOf(n - 1), r \in RowPool}

TableOf(header, rows) == "<table>\n" \o header \o rows \o "</table>\n"

\* the statistics as text lines, for a page without tables
TextLines ==
    "<pre>\nREDHEADS\n"
    \o "Player       Sanc  Games  Wins  PPD    MPR   Hats\n"
    \o "JOHNATHAN    AA    10     7     2.50   1.20  1     100   50\n"
    \o "Team Totals: 10 7 2.50 1.20\n</pre>\n"

\* what follows the section
DocTails ==
    {"",
     "</body></html>\n",
     "<h3>" \o endMarker \o " 5</h3>\n<p>JANE ROE</p>\n</body></html>\n",
     "<h3>All X01 games, sorted by PPD:</h3>\n"
        \o TableOf(HeaderRow, PlayerRow) \o "</body></html>\n"}

\* pages that differ in where the markers are
LocatorDocs ==
    {h \o m \o b \o t :
        h \in DocHeads, m \in DocHeadings,
        b \in {TableOf(HeaderRow, TeamRow \o PlayerRow), TextLines},
        t \in DocTails}

\* pages that differ in the rows of the statistics table
TableDocs ==
    {"<html><body>\n<h3>" \o startMarker \o "</h3>\n" \o TableOf(hr, rows) \o t :
        hr \in {HeaderRow, HeaderRowWithTeam, HeaderRowOther},
        rows \in RowsOf(MaxRows),
        t \in {"<h3>" \o endMarker \o " 5</h3>\n</body></html>\n",
               TableOf(HeaderRow, PlayerRow \o WheelockRow) \o "</body></html>\n"}}

\* the player line of the line-format scenario
ScenarioBLine == "JOHN DOE AA 10 7 2.50 1.20 1 100 50"

\* pages whose section holds statistics as text lines only
LineDocs ==
    {"<html><body>\n<pre>\n" \o startMarker \o "\n" \o team \o line \o "\n" \o totals
        \o endMarker \o " 5\n</pre>\n</body></html>\n" :
        team \in {"", "REDHEADS\n", "Team: Grand Ave.\n", "BRIDGE INN 2\n",
                  "SIR JAMES PUB 2\n"},
        line \in {ScenarioBLine,
                  "JOHN         AA    10     7     2.50   1.20  1     100   50",
                  "MIKE 30 -7 3.50 0.00 0 300 50"},
        totals \in {"", "Team Totals: 30 17 2.50 1.20\n"}}

Documents == LocatorDocs \cup TableDocs \cup LineDocs

-----------------------------------------------------------------------------
(* The schedule: ExtractScheduleFromText, ParseScheduleManually, FindOpponent.
   A schedule entry is a models.MatchSchedule, a record with the fields Week,
   Date, HomeTeam and AwayTeam. *)

\* the 1-based position that follows the longest run of characters of a
\* class that starts at position p of s; the classes are those of the regular
\* expressions: s for \s, d for \d, w for \w and team for [A-Z\s&']
RunEnd(s, p, class) ==
    LET InRun(c) ==
            CASE class = "s" -> IsSpace(c)
              [] class = "d" -> IsDigit(c)
              [] class = "w" -> IsDigit(c) \/ IsUpper(c) \/ IsLower(c) \/ c = "_"
              [] class = "team" -> IsUpper(c) \/ IsSpace(c) \/ c = "&" \/ c = "'"
    IN  IF \E q \in p..Len(s) : ~InRun(Char(s, q))
        THEN CHOOSE q \in p..Len(s) :
                ~InRun(Char(s, q)) /\ \A r \in p..(q - 1) : InRun(Char(s, r))
        ELSE Len(s) + 1

\* the int a run of decimal digits stands for (the week numbers of the model
\* have at most nine digits unless they are out of the range of int)
RECURSIVE DecimalValue(_)
DecimalValue(d) ==
    IF d = "" THEN 0
    ELSE 10 * DecimalValue(SubSeq(d, 1, Len(d) - 1)) + (ClassPos(Char(d, Len(d)), Digits) - 1)

\* package regexp on an expression that is a sequence of literals and of
\* repeated character classes: the positions at which a match of the tokens
\* from the k-th on can end when it starts at one of the positions of from.
\* A position is the 1-based index of the next character.
RECURSIVE regexEnds(_, _, _, _)
regexEnds(tokens, k, line, from) ==
    IF k > Len(tokens) \/ from = {} THEN from
    ELSE LET t == tokens[k]
         IN  regexEnds(tokens, k + 1, line,
                CASE t.kind = "lit" ->
                        {p + Len(t.text) : p \in {q \in from : HasPrefixAt(line, q - 1, t.text)}}
                  [] t.kind = "star" ->
                        UNION {p..RunEnd(line, p, t.class) : p \in from}
                  [] t.kind = "plus" ->
                        UNION {(p + 1)..RunEnd(line, p, t.class) : p \in from}
                  [] t.kind = "times" ->
                        {p + t.n : p \in {q \in from : q + t.n <= RunEnd(line, q, t.class)}})

\* weekDateRegex.FindStringSubmatch(line) for the expression
\*     Week\s*(\d+)\s*-\s*(\w+\s*\d+\s*,\s*\d{4})
\* ok tells whether the line has a match; week and date are the two groups of
\* the leftmost one.  No part of the date but the comma can hold a comma, so
\* the match that starts at a position ends at one position only, and the
\* groups are read off the matched text: the week is its first run of digits,
\* the date what follows the dash and the white space after it.
weekDateRegex(line) ==
    LET Lit(text) == [kind |-> "lit", text |-> text]
        Star(class) == [kind |-> "star", class |-> class]
        Plus(class) == [kind |-> "plus", class |-> class]
        tokens == <<Lit("Week"), Star("s"), Plus("d"), Star("s"), Lit("-"), Star("s"),
                    Plus("w"), Star("s"), Plus("d"), Star("s"), Lit(","), Star("s"),
                    [kind |-> "times", class |-> "d", n |-> 4]>>
        begins == {i \in 1..Len(line) : regexEnds(tokens, 1, line, {i}) # {}}
    IN  IF begins = {} THEN [ok |-> FALSE, week |-> "", date |-> ""]
        ELSE LET i == CHOOSE b \in begins : \A c \in begins : b <= c
                 e == CHOOSE q \in regexEnds(tokens, 1, line, {i}) : TRUE
                 match == SubSeq(line, i, e - 1)
                 digits == RunEnd(match, 5, "s")
                 dash == RunEnd(match, RunEnd(match, digits, "d"), "s")
             IN  [ok |-> TRUE,
                  week |-> SubSeq(match, digits, RunEnd(match, digits, "d") - 1),
                  date |-> SubSeq(match, RunEnd(match, dash + 1, "s"), Len(match))]

\* matchupRegex.FindAllStringSubmatch(line, -1) for the expression
\*     ([A-Z\s&']+)\s*(?:vs\.?|@|at)\s*([A-Z\s&']+)
\* the two groups of each match, in order.  No separator is made of characters
\* of the groups' class, so a match is a maximal run of characters of the
\* class, a separator right after it and the maximal run right after the
\* separator.  The search for the next match starts where a match ends, so of
\* a chain of runs linked by separators the first and second run make a match,
\* the third and fourth the next, and so on.  The white space `\s*` takes from
\* the head of the second group is white space strings.TrimSpace removes from
\* it anyway.
matchupRegex(line) ==
    LET TeamCharAt(q) == q >= 1 /\ q <= Len(line) /\ RunEnd(line, q, "team") > q
        SepLen(j) ==
            IF HasPrefixAt(line, j - 1, "vs.") THEN 3
            ELSE IF HasPrefixAt(line, j - 1, "vs") THEN 2
            ELSE IF HasPrefixAt(line, j - 1, "@") THEN 1
            ELSE IF HasPrefixAt(line, j - 1, "at") THEN 2
            ELSE 0
        \* the position after the separator that follows the run that starts at q
        AfterSep(q) ==
            RunEnd(line, q, "team") + SepLen(RunEnd(line, q, "team"))
        \* the first positions of the maximal runs
        starts == {q \in 1..Len(line) : TeamCharAt(q) /\ ~TeamCharAt(q - 1)}
        \* the run that starts at q is followed by a separator and a run
        Linked(q) == AfterSep(q) > RunEnd(line, q, "team") /\ TeamCharAt(AfterSep(q))
        \* the runs from which a chain of linked runs leads to the run at q
        Chain(q) == {p \in starts : p < q /\ \A r \in starts : (p <= r /\ r < q) => Linked(r)}
        matched == {q \in starts : Linked(q) /\ Cardinality(Chain(q)) % 2 = 0}
        Match(q) ==
            [home |-> SubSeq(line, q, RunEnd(line, q, "team") - 1),
             away |-> SubSeq(line, AfterSep(q), RunEnd(line, AfterSep(q), "team") - 1)]
    IN  [n \in 1..Cardinality(matched) |->
            Match(CHOOSE q \in matched : Cardinality({r \in matched : r < q}) = n - 1)]

\* a loop that appends the entries of a line whatever the current week is
ExtractScheduleFromText_anyWeek(text) ==
    LET lines == SplitLines(text)
        \* the entries of the matches of a line
        Entries(matchupMatches, currentWeek, currentDate) ==
            [n \in 1..Len(matchupMatches) |->
                [Week |-> currentWeek,
                 Date |-> currentDate,
                 HomeTeam |-> TrimSpace(matchupMatches[n].home),
                 AwayTeam |-> TrimSpace(matchupMatches[n].away)]]
        RECURSIVE Scan(_, _, _)
        \* the loop body on the line and the match of weekDateRegex in it
        Body(k, line, weekDateMatch, weekNum, currentWeek, currentDate) ==
            IF weekDateMatch.ok /\ weekNum.err = "none"
            THEN Scan(k + 1, DecimalValue(weekNum.val), weekDateMatch.date)
            ELSE Entries(matchupRegex(line), currentWeek, currentDate)
                 \o Scan(k + 1, currentWeek, currentDate)
        Scan(k, currentWeek, currentDate) ==
            IF k > Len(lines) THEN <<>>
            \* the line and its match are evaluated once and bound
            ELSE CHOOSE entries \in
                    {Body(k, line, weekDateMatch, Atoi(weekDateMatch.week),
                          currentWeek, currentDate) :
                        <<line, weekDateMatch>> \in
                            {<<l, weekDateRegex(l)>> : l \in {TrimSpace(lines[k])}}} : TRUE
    IN  Scan(1, 0, "")

\* ExtractScheduleFromText(text)
ExtractScheduleFromText(text) ==
    LET lines == SplitLines(text)
        \* the entries of the matches of a line
        Entries(matchupMatches, currentWeek, currentDate) ==
            [n \in 1..Len(matchupMatches) |->
                [Week |-> currentWeek,
                 Date |-> currentDate,
                 HomeTeam |-> TrimSpace(matchupMatches[n].home),
                 AwayTeam |-> TrimSpace(matchupMatches[n].away)]]
        RECURSIVE Scan(_, _, _)
        \* the loop body on the line and the match of weekDateRegex in it
        Body(k, line, weekDateMatch, weekNum, currentWeek, currentDate) ==
            IF weekDateMatch.ok /\ weekNum.err = "none"
            THEN Scan(k + 1, DecimalValue(weekNum.val), weekDateMatch.date)
            ELSE (IF currentWeek > 0
                  THEN Entries(matchupRegex(line), currentWeek, currentDate)
                  ELSE <<>>)
                 \o Scan(k + 1, currentWeek, currentDate)
        Scan(k, currentWeek, currentDate) ==
            IF k > Len(lines) THEN <<>>
            \* the line and its match are evaluated once and bound
            ELSE CHOOSE entries \in
                    {Body(k, line, weekDateMatch, Atoi(weekDateMatch.week),
                          currentWeek, currentDate) :
                        <<line, weekDateMatch>> \in
                            {<<l, weekDateRegex(l)>> : l \in {TrimSpace(lines[k])}}} : TRUE
    IN  Scan(1, 0, "")

\* a static schedule whose first team of a pair is at home in the odd weeks
ParseScheduleManually_oddWeeks ==
    LET teams == <<"THE HUTCH", "CAPITALIZE", "GRAND AVE", "HARBOR HILLS",
                   "HARBOR HILLS TOO", "HILLS HAS EYES", "REDHEADS",
                   "SIR JAMES PUB DOS", "SPEARS N BEERS">>
        \* fmt.Sprintf("%d", n) for 0 <= n < 100
        Itoa(n) == (IF n >= 10 THEN Char(Digits, (n \div 10) + 1) ELSE "")
                   \o Char(Digits, (n % 10) + 1)
        \* the entries of one week from the 0-based roster index i on
        RECURSIVE Pairs(_, _)
        Pairs(w, i) ==
            IF ~(i < Len(teams)) THEN <<>>
            ELSE (IF i + 1 >= Len(teams) THEN <<>>
                  ELSE <<[Week |-> w,
                          Date |-> "Week " \o Itoa(w) \o ", 2024",
                          HomeTeam |-> IF w % 2 = 1 THEN teams[i + 1] ELSE teams[i + 2],
                          AwayTeam |-> IF w % 2 = 1 THEN teams[i + 2] ELSE teams[i + 1]]>>)
                 \o Pairs(w, i + 2)
        RECURSIVE Weeks(_)
        Weeks(w) == IF ~(w <= 26) THEN <<>> ELSE Pairs(w, 0) \o Weeks(w + 1)
    IN  Weeks(1)

\* ParseScheduleManually()
ParseScheduleManually ==
    LET teams == <<"THE HUTCH", "CAPITALIZE", "GRAND AVE", "HARBOR HILLS",
                   "HARBOR HILLS TOO", "HILLS HAS EYES", "REDHEADS",
                   "SIR JAMES PUB DOS", "SPEARS N BEERS">>
        \* fmt.Sprintf("%d", n) for 0 <= n < 100
        Itoa(n) == (IF n >= 10 THEN Char(Digits, (n \div 10) + 1) ELSE "")
                   \o Char(Digits, (n % 10) + 1)
        \* the entries of one week from the 0-based roster index i on
        RECURSIVE Pairs(_, _)
        Pairs(w, i) ==
            IF ~(i < Len(teams)) THEN <<>>
            ELSE (IF i + 1 >= Len(teams) THEN <<>>
                  ELSE <<[Week |-> w,
                          Date |-> "Week " \o Itoa(w) \o ", 2024",
                          HomeTeam |-> IF w % 2 = 0 THEN teams[i + 1] ELSE teams[i + 2],
                          AwayTeam |-> IF w % 2 = 0 THEN teams[i + 2] ELSE teams[i + 1]]>>)
                 \o Pairs(w, i + 2)
        RECURSIVE Weeks(_)
        Weeks(w) == IF ~(w <= 26) THEN <<>> ELSE Pairs(w, 0) \o Weeks(w + 1)
    IN  Weeks(1)

\* FindOpponent(team, week, schedules): the set of strings one call can
\* return.  Entries of other weeks do nothing in the loop, so it is run over
\* the entries of the week; each of the three calls of NormalizeTeamName
\* returns one of the strings it can return.
FindOpponent(tm, wk, scheds) ==
    LET OfWeek(schedule) == schedule.Week = wk
        RECURSIVE Loop(_)
        Loop(rest) ==
            IF rest = <<>> THEN {"Unknown"}
            ELSE LET schedule == Head(rest)
                     later == Loop(Tail(rest))
                 IN  UNION {IF normTeam = normHomeTeam THEN {schedule.AwayTeam}
                            ELSE IF normTeam = normAwayTeam THEN {schedule.HomeTeam}
                            ELSE later :
                            <<normTeam, normHomeTeam, normAwayTeam>> \in
                                NormalizeTeamName(tm)
                                \X NormalizeTeamName(schedule.HomeTeam)
                                \X NormalizeTeamName(schedule.AwayTeam)}
    IN  Loop(SelectSeq(scheds, OfWeek))

-----------------------------------------------------------------------------
(* The copies of the schedule functions in the single-file program *)

\* ExtractScheduleFromText(text) of the single-file program, which looks for a
\* BYE line before it looks for matchups
ExtractScheduleFromText_main(text) ==
    LET lines == SplitLines(text)
        \* byeRegex.FindStringSubmatch(line): whether it matches, and group 1
        byeRegex(line) ==
            LET Bye(e) ==
                    \E word \in {"BYE", "bye", "Bye"} :
                        regexEnds(<<[kind |-> "star", class |-> "s"],
                                    [kind |-> "lit", text |-> word]>>, 1, line, {e}) # {}
                GroupEnds(p) == {e \in (p + 1)..RunEnd(line, p, "team") : Bye(e)}
                begins == {p \in 1..Len(line) : GroupEnds(p) # {}}
            IN  IF begins = {} THEN [ok |-> FALSE, team |-> ""]
                ELSE LET p == CHOOSE x \in begins : \A y \in begins : x <= y
                     IN  [ok |-> TRUE,
                          team |-> SubSeq(line, p,
                                      (CHOOSE e \in GroupEnds(p) :
                                          \A f \in GroupEnds(p) : f <= e) - 1)]
        Entries(matchupMatches, currentWeek, currentDate) ==
            [n \in 1..Len(matchupMatches) |->
                [Week |-> currentWeek,
                 Date |-> currentDate,
                 HomeTeam |-> TrimSpace(matchupMatches[n].home),
                 AwayTeam |-> TrimSpace(matchupMatches[n].away)]]
        RECURSIVE Scan(_, _, _)
        Body(k, line, weekDateMatch, weekNum, byeMatch, currentWeek, currentDate) ==
            IF weekDateMatch.ok /\ weekNum.err = "none"
            THEN Scan(k + 1, DecimalValue(weekNum.val), weekDateMatch.date)
            ELSE IF byeMatch.ok /\ currentWeek > 0
            THEN <<[Week |-> currentWeek,
                    Date |-> currentDate,
                    HomeTeam |-> TrimSpace(byeMatch.team),
                    AwayTeam |-> "BYE"]>>
                 \o Scan(k + 1, currentWeek, currentDate)
            ELSE (IF currentWeek > 0
                  THEN Entries(matchupRegex(line), currentWeek, currentDate)
                  ELSE <<>>)
                 \o Scan(k + 1, currentWeek, currentDate)
        Scan(k, currentWeek, currentDate) ==
            IF k > Len(lines) THEN <<>>
            ELSE CHOOSE entries \in
                    {Body(k, line, weekDateMatch, Atoi(weekDateMatch.week), byeMatch,
                          currentWeek, currentDate) :
                        <<line, weekDateMatch, byeMatch>> \in
                            {<<l, weekDateRegex(l), byeRegex(l)>> :
                                l \in {TrimSpace(lines[k])}}} : TRUE
    IN  Scan(1, 0, "")

\* FindOpponent(team, week, schedules) of the single-file program, with its
\* special case for BYE entries
FindOpponent_main(tm, wk, scheds) ==
    LET OfWeek(schedule) == schedule.Week = wk
        RECURSIVE Loop(_)
        Loop(rest) ==
            IF rest = <<>> THEN {"Unknown"}
            ELSE LET schedule == Head(rest)
                     later == Loop(Tail(rest))
                 IN  UNION {IF ToUpper(schedule.AwayTeam) = "BYE" /\ normTeam = normHomeTeam
                            THEN {"BYE"}
                            ELSE IF ToUpper(schedule.HomeTeam) = "BYE"
                                    /\ normTeam = normAwayTeam
                            THEN {"BYE"}
                            ELSE IF normTeam = normHomeTeam THEN {schedule.AwayTeam}
                            ELSE IF normTeam = normAwayTeam THEN {schedule.HomeTeam}
                            ELSE later :
                            <<normTeam, normHomeTeam, normAwayTeam>> \in
                                NormalizeTeamName(tm)
                                \X NormalizeTeamName(schedule.HomeTeam)
                                \X NormalizeTeamName(schedule.AwayTeam)}
    IN  Loop(SelectSeq(scheds, OfWeek))

-----------------------------------------------------------------------------
(* The standings links: ResolveRelativeURL and ExtractWeekNumber of the scraper
   package, and SaveWeeklyStatsToCSV of the utils package *)

\* ResolveRelativeURL(baseURL, relativeURL); `base` is the argument and baseURL
\* the value the function goes on with
ResolveRelativeURL(base, relativeURL) ==
    LET HasPrefix(s, prefix) == HasPrefixAt(s, 0, prefix)
        baseURL ==
            IF ~HasPrefix(base, "https://") /\ ~HasPrefix(base, "http://")
            THEN "https://" \o base
            ELSE IF HasPrefix(base, "https:/") /\ ~HasPrefix(base, "https://")
            THEN "https://" \o SubSeq(base, Len("https:/") + 1, Len(base))
            ELSE IF HasPrefix(base, "http:/") /\ ~HasPrefix(base, "http://")
            THEN "http://" \o SubSeq(base, Len("http:/") + 1, Len(base))
            ELSE base
        slashes == {i \in 0..(Len(baseURL) - 1) : Char(baseURL, i + 1) = "/"}
        lastSlashIndex == IF slashes = {} THEN -1
                          ELSE CHOOSE i \in slashes : \A k \in slashes : k <= i
        baseDir == IF lastSlashIndex > 0 /\ lastSlashIndex < Len(baseURL) - 1
                   THEN Slice(baseURL, 0, lastSlashIndex + 1)
                   ELSE IF baseURL = "" \/ Char(baseURL, Len(baseURL)) # "/"
                   THEN baseURL \o "/"
                   ELSE baseURL
    IN  IF HasPrefix(relativeURL, "http://") \/ HasPrefix(relativeURL, "https://")
        THEN relativeURL
        ELSE baseDir \o relativeURL

\* ExtractWeekNumber(url): the number after the leftmost "Wk" that a digit
\* follows, 0 without one or when the digits are out of the range of int
ExtractWeekNumber(url) ==
    LET starts == {i \in 0..(Len(url) - 3) :
                      HasPrefixAt(url, i, "Wk") /\ IsDigit(Char(url, i + 3))}
    IN  IF starts = {} THEN 0
        ELSE LET i == CHOOSE x \in starts : \A y \in starts : x <= y
                 weekNum == Atoi(SubSeq(url, i + 3, RunEnd(url, i + 3, "d") - 1))
             IN  IF weekNum.err = "none" THEN DecimalValue(weekNum.val) ELSE 0

\* SaveWeeklyStatsToCSV(weeklyStats, filename): the text written to the file.
\* An integer field holds its decimal numeral, which is what %d prints; %.2f
\* prints a float with two fraction digits (a fraction of more digits is
\* rounded on its decimal digits, a tie upwards: the pages of the model hold
\* no such fraction).
SaveWeeklyStatsToCSV(bundle) ==
    LET Itoa(n) == (IF n >= 10 THEN Char(Digits, (n \div 10) + 1) ELSE "")
                   \o Char(Digits, (n % 10) + 1)
        RECURSIVE Increment(_)
        Increment(d) ==
            IF d = "" THEN "1"
            ELSE IF Char(d, Len(d)) = "9" THEN Increment(SubSeq(d, 1, Len(d) - 1)) \o "0"
            ELSE SubSeq(d, 1, Len(d) - 1)
                 \o Char(Digits, ClassPos(Char(d, Len(d)), Digits) + 1)
        Fixed2(x) ==
            LET neg == x # "" /\ Head(x) = "-"
                mag == IF neg THEN Tail(x) ELSE x
                dot == Index(mag, ".")
                ip == IF dot = -1 THEN mag ELSE Slice(mag, 0, dot)
                fp == (IF dot = -1 THEN "" ELSE Slice(mag, dot + 1, Len(mag))) \o "000"
                cut == ip \o SubSeq(fp, 1, 2)
                digits == IF ClassPos(Char(fp, 3), Digits) > 5 THEN Increment(cut) ELSE cut
            IN  IF x \in {"+Inf", "-Inf", "NaN"} THEN x
                ELSE (IF neg THEN "-" ELSE "")
                     \o SubSeq(digits, 1, Len(digits) - 2) \o "."
                     \o SubSeq(digits, Len(digits) - 1, Len(digits))
        Row(player) ==
            Itoa(bundle.Week) \o "," \o player.PlayerName \o "," \o player.Team \o ","
            \o player.Opponent \o "," \o player.SancPd \o "," \o player.GamesPlayed \o ","
            \o player.GamesWon \o "," \o Fixed2(player.PPD) \o "," \o Fixed2(player.MPR)
            \o "," \o player.HatTricks \o "," \o player.HighScore \o ","
            \o player.HighCheckout \o "\n"
        RECURSIVE Rows(_)
        Rows(k) == IF k > Len(bundle.PlayerStats) THEN ""
                   ELSE Row(bundle.PlayerStats[k]) \o Rows(k + 1)
    IN  "Week,Player,Team,Opponent,SancPd,GamesPlayed,GamesWon,PPD,MPR,HatTricks,"
        \o "HighScore,HighCheckout\n" \o Rows(1)

-----------------------------------------------------------------------------
(* Specifications *)

NormIdle == nName = "" /\ nPc = "idle" /\ nRes = "" /\ nRes2 = "" /\ nAgain = ""

NumIdle == tok = "" /\ fld = 3 /\ san = "" /\ row = ZeroPlayerStat /\ pPc = "idle"

ExIdle ==
    /\ htmlContent = "" /\ startIndex = -1 /\ endIndex = -1 /\ sectionHTML = ""
    /\ doc = <<>> /\ playerStats = <<>> /\ teamStats = <<>> /\ origin = <<>>
    /\ pass = "none" /\ pc = "idle"

LoopIdle ==
    /\ standingsURLs = <<>> /\ jLink = 0 /\ week = 0 /\ served = 0
    /\ htmlFiles = <<>> /\ csvFiles = <<>> /\ weeklyStats = <<>> /\ lPc = "idle"
    /\ rrBase = "" /\ rrRelative = "" /\ absURL = ""

SchIdle ==
    /\ pdfExists = FALSE /\ downloadOk = FALSE /\ readOk = FALSE /\ pdfText = ""
    /\ schedules = <<>> /\ foTeam = "" /\ foWeek = 0 /\ opponent = "" /\ sPc = "idle"

RecIdle ==
    recVals = <<>> /\ recRow = ZeroPlayerStat /\ recLine = ZeroPlayerStat /\ recPc = "idle"

TlIdle == tlLine = "" /\ tlRes = FALSE /\ tlPc = "idle"

\* The canonicalizer called on a name, called again on the same name, and
\* called on its own result.

InitNormalize ==
    /\ nName \in NameInputs
    /\ nPc = "init"
    /\ nRes = "" /\ nRes2 = "" /\ nAgain = ""
    /\ NumIdle /\ ExIdle /\ TlIdle /\ RecIdle /\ SchIdle /\ LoopIdle

CallNormalize ==
    /\ nPc = "init"
    /\ nRes' \in NormalizeTeamName(nName)
    /\ nPc' = "one"
    /\ UNCHANGED <<nName, nRes2, nAgain, numVars, exVars, tlVars, recVars, schVars, loopVars>>

CallNormalizeAgain ==
    /\ nPc = "one"
    /\ nRes2' \in NormalizeTeamName(nName)
    /\ nPc' = "two"
    /\ UNCHANGED <<nName, nRes, nAgain, numVars, exVars, tlVars, recVars, schVars, loopVars>>

CallNormalizeOnResult ==
    /\ nPc = "two"
    /\ nAgain' \in NormalizeTeamName(nRes)
    /\ nPc' = "done"
    /\ UNCHANGED <<nName, nRes, nRes2, numVars, exVars, tlVars, recVars, schVars, loopVars>>

NextNormalize == CallNormalize \/ CallNormalizeAgain \/ CallNormalizeOnResult

SpecNormalize == InitNormalize /\ [][NextNormalize]_vars

\* One cell text through the sanitizer, then through the parse of a table row
\* that holds it at position fld.

InitNumeric ==
    /\ tok \in TokenInputs
    /\ fld \in NumericFields
    /\ san = ""
    /\ row = ZeroPlayerStat
    /\ pPc = "init"
    /\ NormIdle /\ ExIdle /\ TlIdle /\ RecIdle /\ SchIdle /\ LoopIdle

Sanitize ==
    /\ pPc = "init"
    /\ san' = sanitizeNumberString(tok)
    /\ pPc' = "sanitized"
    /\ UNCHANGED <<tok, fld, row, normVars, exVars, tlVars, recVars, schVars, loopVars>>

ParseRow ==
    /\ pPc = "sanitized"
    /\ row' = tablePlayerStat(RowWith(fld, tok), "")
    /\ pPc' = "parsed"
    /\ UNCHANGED <<tok, fld, san, normVars, exVars, tlVars, recVars, schVars, loopVars>>

NextNumeric == Sanitize \/ ParseRow

SpecNumeric == InitNumeric /\ [][NextNumeric]_vars

\* One call of ExtractPlayerStats on a document.

Init ==
    /\ htmlContent \in Documents
    /\ startIndex = -1 /\ endIndex = -1 /\ sectionHTML = ""
    /\ doc = <<>> /\ playerStats = <<>> /\ teamStats = <<>> /\ origin = <<>>
    /\ pass = "none"
    /\ pc = "start"
    /\ NormIdle /\ NumIdle /\ TlIdle /\ RecIdle /\ SchIdle /\ LoopIdle

\* the search for the start marker; without one the call returns empty lists
FindStart ==
    /\ pc = "start"
    /\ startIndex' = findStartIndex(htmlContent)
    /\ pc' = IF startIndex' = -1 THEN "done" ELSE "end"
    /\ UNCHANGED <<htmlContent, endIndex, sectionHTML, doc, playerStats, teamStats,
                   origin, pass, normVars, numVars, tlVars, recVars, schVars, loopVars>>

\* the search for the end marker
FindEnd ==
    /\ pc = "end"
    /\ endIndex' = findEndIndex(htmlContent, startIndex)
    /\ pc' = "slice"
    /\ UNCHANGED <<htmlContent, startIndex, sectionHTML, doc, playerStats, teamStats,
                   origin, pass, normVars, numVars, tlVars, recVars, schVars, loopVars>>

\* sectionHTML := htmlContent[startIndex:endIndex], which panics when the
\* bounds are out of order, and the parse of the section
SliceSection ==
    /\ pc = "slice"
    /\ IF startIndex > endIndex
       THEN /\ pc' = "panic"
            /\ UNCHANGED <<sectionHTML, doc>>
       ELSE /\ sectionHTML' = Slice(htmlContent, startIndex, endIndex)
            /\ doc' = NewDocument(sectionHTML')
            /\ pc' = "table"
    /\ UNCHANGED <<htmlContent, startIndex, endIndex, playerStats, teamStats,
                   origin, pass, normVars, numVars, tlVars, recVars, schVars, loopVars>>

\* the call of extractPlayerStatsFromTable
FromTable ==
    /\ pc = "table"
    /\ LET r == extractPlayerStatsFromTable(doc, "")
       IN  /\ playerStats' = [i \in 1..Len(r.found) |-> r.found[i].stat]
           /\ origin' = [i \in 1..Len(r.found) |-> <<r.found[i].table, r.found[i].row>>]
           /\ pass' = IF r.found = <<>> THEN "none" ELSE r.pass
           /\ pc' = IF r.found = <<>> THEN "lines" ELSE "post"
    /\ UNCHANGED <<htmlContent, startIndex, endIndex, sectionHTML, doc, teamStats,
                   normVars, numVars, tlVars, recVars, schVars, loopVars>>

\* the line-by-line pass, taken when the tables gave no player
FromLines ==
    /\ pc = "lines"
    /\ LET r == scanLines(SplitLines(sectionHTML), 1, "")
       IN  /\ playerStats' = r.players
           /\ teamStats' = r.teams
           /\ pass' = IF r.players = <<>> THEN "none" ELSE "lines"
    /\ pc' = "post"
    /\ UNCHANGED <<htmlContent, startIndex, endIndex, sectionHTML, doc, origin,
                   normVars, numVars, tlVars, recVars, schVars, loopVars>>

\* the correction of team assignments, and the return
PostProcess ==
    /\ pc = "post"
    /\ playerStats' = correctTeams(playerStats)
    /\ pc' = "done"
    /\ UNCHANGED <<htmlContent, startIndex, endIndex, sectionHTML, doc, teamStats,
                   origin, pass, normVars, numVars, tlVars, recVars, schVars, loopVars>>

Next == FindStart \/ FindEnd \/ SliceSection \/ FromTable \/ FromLines \/ PostProcess

Spec == Init /\ [][Next]_vars

\* One call of isTeamNameLine on a line.

LineFrags ==
    {"", "REDHEADS", "the hutch", "Bridge Inn", " ", "1", "2", "3", " 10 7 2.50",
     "Player", "PPD", "Team Totals", "Games", "Wins", "MPR", "-----"}

RECURSIVE LinesOf(_)
LinesOf(n) == IF n = 0 THEN {""} ELSE {p \o f : p \in LinesOf(n - 1), f \in LineFrags}

LineInputs ==
    LinesOf(MaxLineFrags)
    \cup {"JOHN AA 10 7 2.50 1.20 1 100 50",
          "JOHN DOE AA 10 7 2.50 1.20 1 100 50",
          "JOHNATHAN    AA    10     7     2.50   1.20  1     100   50",
          "SIR JAMES PUB DOS", "HARBOR HILLS TOO", "  GRAND AVE  ", "AB", "Week 12"}

InitTeamLine ==
    /\ tlLine \in LineInputs
    /\ tlRes = FALSE
    /\ tlPc = "init"
    /\ NormIdle /\ NumIdle /\ ExIdle /\ RecIdle /\ SchIdle /\ LoopIdle

CallIsTeamNameLine ==
    /\ tlPc = "init"
    /\ tlRes' = isTeamNameLine(tlLine)
    /\ tlPc' = "done"
    /\ UNCHANGED <<tlLine, normVars, numVars, exVars, recVars, schVars, loopVars>>

SpecTeamLine == InitTeamLine /\ [][CallIsTeamNameLine]_vars

\* Nine values as the cells of a table row and as one line.

ValueTuples ==
    {<<name, rating, played, won, ppd, mpr, hats, "100", "50">> :
        name \in {"JOHN", "JOHN DOE"},
        rating \in {"AA", "A1"},
        played \in {"10", "-5", "1,234"},
        won \in {"7", "7."},
        ppd \in {"2.50", "$2.50"},
        mpr \in {"1.20", ".5"},
        hats \in {"1", "N/A"}}

\* the values as one line, a space between them
RECURSIVE JoinFields(_)
JoinFields(values) ==
    IF Len(values) = 1 THEN values[1]
    ELSE values[1] \o " " \o JoinFields(Tail(values))

InitRecord ==
    /\ recVals \in ValueTuples
    /\ recRow = ZeroPlayerStat /\ recLine = ZeroPlayerStat
    /\ recPc = "init"
    /\ NormIdle /\ NumIdle /\ ExIdle /\ TlIdle /\ SchIdle /\ LoopIdle

ParseBothWays ==
    /\ recPc = "init"
    /\ recRow' = tablePlayerStat(recVals, "")
    /\ recLine' = parsePlayerStatsLine(JoinFields(recVals))
    /\ recPc' = "done"
    /\ UNCHANGED <<recVals, normVars, numVars, exVars, tlVars, schVars, loopVars>>

SpecRecord == InitRecord /\ [][ParseBothWays]_vars

\* The schedule stage of main: the PDF is looked up and downloaded if it is
\* missing, its text is read and the schedule is extracted from it, and the
\* standings loop resolves an opponent against the schedule.

\* the texts ReadPDFText can return: at most MaxScheduleLines lines
ScheduleTexts ==
    LET pool == {"Week 3 - October 6, 2024",
                 "Week 0 - September 1, 2024",
                 "THE HUTCH vs CAPITALIZE",
                 "  GRAND AVE @ HARBOR HILLS, REDHEADS vs. SPEARS N BEERS",
                 "REDHEADS BYE"}
        RECURSIVE Of(_)
        Of(n) == IF n = 1 THEN pool
                 ELSE Of(n - 1) \cup {t \o "\n" \o l : t \in Of(n - 1), l \in pool}
    IN  {""} \cup Of(MaxScheduleLines)

\* the schedule lists handed to FindOpponent: at most MaxEntries entries
ScheduleLists ==
    LET Entry(w, home, away) ==
            [Week |-> w, Date |-> "October 6, 2024", HomeTeam |-> home, AwayTeam |-> away]
        pool == {Entry(3, "THE HUTCH", "CAPITALIZE"),
                 Entry(3, "REDHEADS", "The Hutch"),
                 Entry(4, "CAPITALIZE", "THE HUTCH"),
                 Entry(3, "SIRJAMESPUBDOS", "REDHEADS"),
                 Entry(3, "REDHEADS", "BYE"),
                 Entry(4, "REDHEADS", "Bye")}
        RECURSIVE Of(_)
        Of(n) == IF n = 0 THEN {<<>>}
                 ELSE Of(n - 1) \cup {Append(l, e) : l \in Of(n - 1), e \in pool}
    IN  Of(MaxEntries)

InitSchedule ==
    /\ NormIdle /\ NumIdle /\ ExIdle /\ TlIdle /\ RecIdle /\ LoopIdle
    /\ pdfExists = FALSE /\ downloadOk = FALSE /\ readOk = FALSE /\ pdfText = ""
    /\ schedules = <<>> /\ foTeam = "" /\ foWeek = 0 /\ opponent = ""
    /\ sPc = "stat"

\* os.Stat(localPDFPath) and, if the file does not exist, scraper.DownloadPDF
StatPDF ==
    /\ sPc = "stat"
    /\ \E exists \in BOOLEAN, ok \in BOOLEAN :
        /\ pdfExists' = exists
        /\ downloadOk' = (~exists /\ ok)
        /\ schedules' = IF ~exists /\ ~ok THEN ParseScheduleManually ELSE <<>>
    /\ sPc' = "read"
    /\ UNCHANGED <<readOk, pdfText, foTeam, foWeek, opponent,
                   normVars, numVars, exVars, tlVars, recVars, loopVars>>

\* a stage that keeps the extracted schedule even if it has no entry
ReadPDF_keepsEmpty ==
    /\ sPc = "read"
    /\ IF Len(schedules) = 0
       THEN \E ok \in BOOLEAN, text \in ScheduleTexts :
                /\ readOk' = ok
                /\ pdfText' = (IF ok THEN text ELSE "")
                /\ schedules' =
                        IF ~ok THEN ParseScheduleManually
                        ELSE ExtractScheduleFromText(text)
       ELSE UNCHANGED <<readOk, pdfText, schedules>>
    /\ sPc' = "loop"
    /\ UNCHANGED <<pdfExists, downloadOk, foTeam, foWeek, opponent,
                   normVars, numVars, exVars, tlVars, recVars, loopVars>>

\* if len(schedules) == 0: parser.ReadPDFText and parser.ExtractScheduleFromText
ReadPDF ==
    /\ sPc = "read"
    /\ IF Len(schedules) = 0
       THEN \E ok \in BOOLEAN, text \in ScheduleTexts :
                /\ readOk' = ok
                /\ pdfText' = (IF ok THEN text ELSE "")
                /\ schedules' =
                        IF ~ok THEN ParseScheduleManually
                        ELSE LET extracted == ExtractScheduleFromText(text)
                             IN  IF Len(extracted) = 0 THEN ParseScheduleManually
                                 ELSE extracted
       ELSE UNCHANGED <<readOk, pdfText, schedules>>
    /\ sPc' = "loop"
    /\ UNCHANGED <<pdfExists, downloadOk, foTeam, foWeek, opponent,
                   normVars, numVars, exVars, tlVars, recVars, loopVars>>

\* the standings loop: parser.FindOpponent(playerStats[i].Team, week, schedules)
CallFindOpponent ==
    /\ sPc = "loop"
    /\ \E tm \in {"REDHEADS", "the hutch", "SIRJAMESPUBDOS"}, wk \in {3, 4} :
        /\ foTeam' = tm
        /\ foWeek' = wk
        /\ opponent' \in FindOpponent(tm, wk, schedules)
    /\ sPc' = "done"
    /\ UNCHANGED <<pdfExists, downloadOk, readOk, pdfText, schedules,
                   normVars, numVars, exVars, tlVars, recVars, loopVars>>

NextSchedule == StatPDF \/ ReadPDF \/ CallFindOpponent

SpecSchedule == InitSchedule /\ [][NextSchedule]_vars

\* main is one sequential run: the steps of the stage are taken when they can be
SpecScheduleRun == SpecSchedule /\ WF_vars(StatPDF) /\ WF_vars(ReadPDF)

\* FindOpponent on its own, on any schedule list
InitResolve ==
    /\ NormIdle /\ NumIdle /\ ExIdle /\ TlIdle /\ RecIdle /\ LoopIdle
    /\ pdfExists = FALSE /\ downloadOk = FALSE /\ readOk = FALSE /\ pdfText = ""
    /\ schedules \in ScheduleLists
    /\ foTeam = "" /\ foWeek = 0 /\ opponent = ""
    /\ sPc = "loop"

SpecResolve == InitResolve /\ [][CallFindOpponent]_vars

\* The standings loop of main over the links of the index page, in an output
\* directory that holds no file of an earlier run and accepts every write.

\* the hrefs ExtractStandingsLinks can return: each holds "Fall2024" and "Wk"
StandingsLinks ==
    LET pool == {"Fall2024Wk1.html", "Fall2024Wk2.html", "Fall2024Wkly.html"}
        RECURSIVE Of(_)
        Of(n) == IF n = 0 THEN {<<>>}
                 ELSE Of(n - 1) \cup {Append(l, e) : l \in Of(n - 1), e \in pool}
    IN  Of(MaxLinks)

\* the page the site serves at a URL
PageAt(url) ==
    IF Contains(url, "Wk1")
    THEN "<html><body>\n<h3>" \o startMarker \o "</h3>\n"
         \o TableOf(HeaderRow, TeamRow \o PlayerRow \o WheelockRow)
         \o "<h3>" \o endMarker \o " 1</h3>\n</body></html>\n"
    ELSE IF Contains(url, "Wk2")
    THEN "<html><body>\n<pre>\n" \o startMarker \o "\nTeam: Grand Ave.\n"
         \o "JOHN         AA    10     7     2.50   1.20  1     100   50\n"
         \o endMarker \o " 2\n</pre>\n</body></html>\n"
    ELSE "<html><body>\n<h3>" \o startMarker \o "</h3>\n"
         \o TableOf(HeaderRow, TeamRowThreeCells
                \o "<tr><td>ROE, JANE</td><td>B</td><td>9</td><td>4</td><td>1.75</td>"
                \o "<td>0.90</td><td>0</td></tr>\n")
         \o "</body></html>\n"

InitLoop ==
    /\ NormIdle /\ NumIdle /\ ExIdle /\ TlIdle /\ RecIdle
    /\ pdfExists = FALSE /\ downloadOk = FALSE /\ readOk = FALSE /\ pdfText = ""
    /\ schedules \in {ParseScheduleManually,
                      ExtractScheduleFromText("Week 1 - September 8, 2024\n"
                          \o "REDHEADS vs. THE HUTCH, GRAND AVE @ HARBOR HILLS\n"
                          \o "Week 2 - September 15, 2024\nTHE HUTCH vs GRAND AVE\n")}
    /\ foTeam = "" /\ foWeek = 0 /\ opponent = "" /\ sPc = "loop"
    /\ standingsURLs = <<>> /\ jLink = 0 /\ week = 0 /\ served = 0
    /\ htmlFiles = <<>> /\ csvFiles = <<>> /\ weeklyStats = <<>>
    /\ rrBase = "" /\ rrRelative = "" /\ absURL = ""
    /\ lPc = "index"

\* the index page: FetchURL, ExtractStandingsLinks and the conversion of the
\* links to absolute URLs; a failed fetch ends the loop over the one URL
FetchIndex ==
    /\ lPc = "index"
    /\ \E ok \in BOOLEAN, standingsLinks \in StandingsLinks :
        LET url == "https://macdleagues.com/DartStandings/FALL2024standings/"
                   \o "FALL2024%2024SUN1OZCounty.html"
        IN  IF ok
            THEN /\ standingsURLs' = [n \in 1..Len(standingsLinks) |->
                                         ResolveRelativeURL(url, standingsLinks[n])]
                 /\ jLink' = 1
                 /\ lPc' = IF standingsLinks = <<>> THEN "end" ELSE "link"
            ELSE /\ lPc' = "end"
                 /\ UNCHANGED <<standingsURLs, jLink>>
    /\ UNCHANGED <<week, served, htmlFiles, csvFiles, weeklyStats, rrBase, rrRelative,
                   absURL, normVars, numVars, exVars, tlVars, recVars, schVars>>

\* the head of the loop body: the week number, then the page from the file of
\* that week if there is one, else from the site, saving it; a failed fetch
\* goes on with the next link
BeginLink ==
    /\ lPc = "link"
    /\ LET standingsURL == standingsURLs[jLink]
           extractedWeek == ExtractWeekNumber(standingsURL)
       IN  week' = IF extractedWeek > 0 THEN extractedWeek ELSE jLink
    /\ \E ok \in BOOLEAN :
        IF week' \in DOMAIN htmlFiles
        THEN /\ htmlContent' = htmlFiles[week'].content
             /\ served' = htmlFiles[week'].link
             /\ lPc' = "extract"
             /\ UNCHANGED <<htmlFiles, jLink>>
        ELSE IF ok
        THEN /\ htmlContent' = PageAt(standingsURLs[jLink])
             /\ served' = jLink
             /\ htmlFiles' = (week' :> [content |-> htmlContent', link |-> jLink]) @@ htmlFiles
             /\ lPc' = "extract"
             /\ UNCHANGED jLink
        ELSE /\ jLink' = jLink + 1
             /\ lPc' = IF jLink' > Len(standingsURLs) THEN "end" ELSE "link"
             /\ UNCHANGED <<htmlContent, served, htmlFiles>>
    /\ IF lPc' = "extract"
       THEN /\ startIndex' = -1 /\ endIndex' = -1 /\ sectionHTML' = ""
            /\ doc' = <<>> /\ playerStats' = <<>> /\ teamStats' = <<>> /\ origin' = <<>>
            /\ pass' = "none" /\ pc' = "start"
       ELSE UNCHANGED <<startIndex, endIndex, sectionHTML, doc, playerStats, teamStats,
                        origin, pass, pc>>
    /\ UNCHANGED <<standingsURLs, csvFiles, weeklyStats, rrBase, rrRelative, absURL,
                   normVars, numVars, tlVars, recVars, schVars>>

\* the rest of the loop body, after ExtractPlayerStats has returned: the
\* opponent of every player, the bundle, and its CSV file
FinishLink ==
    /\ lPc = "extract"
    /\ pc = "done"
    /\ LET RECURSIVE WithOpponents(_)
           WithOpponents(i) ==
               IF i = 0 THEN {<<>>}
               ELSE {Append(before, [playerStats[i] EXCEPT !.Opponent = opp]) :
                        before \in WithOpponents(i - 1),
                        opp \in FindOpponent(playerStats[i].Team, week, schedules)}
       IN  \E stats \in WithOpponents(Len(playerStats)) :
               /\ playerStats' = stats
               /\ weeklyStats' = Append(weeklyStats,
                      [Week |-> week, PlayerStats |-> stats, TeamStats |-> teamStats])
               /\ csvFiles' = (week :> [content |-> SaveWeeklyStatsToCSV(
                                                        weeklyStats'[Len(weeklyStats')]),
                                        link |-> jLink]) @@ csvFiles
    /\ jLink' = jLink + 1
    /\ lPc' = IF jLink' > Len(standingsURLs) THEN "end" ELSE "link"
    /\ pc' = "idle"
    /\ UNCHANGED <<htmlContent, startIndex, endIndex, sectionHTML, doc, teamStats,
                   origin, pass, standingsURLs, week, served, htmlFiles, rrBase,
                   rrRelative, absURL, normVars, numVars, tlVars, recVars, schVars>>

NextLoop == FetchIndex \/ BeginLink \/ Next \/ FinishLink

SpecLoop == InitLoop /\ [][NextLoop]_vars

\* One call of ResolveRelativeURL, on a base with a well-formed, a malformed or
\* no protocol prefix.

InitResolveURL ==
    /\ NormIdle /\ NumIdle /\ ExIdle /\ TlIdle /\ RecIdle /\ SchIdle
    /\ standingsURLs = <<>> /\ jLink = 0 /\ week = 0 /\ served = 0
    /\ htmlFiles = <<>> /\ csvFiles = <<>> /\ weeklyStats = <<>>
    /\ rrBase \in {protocol \o host \o path :
                      protocol \in {"https://", "http://", "https:/", "http:/", "https:", ""},
                      host \in {"macdleagues.com", "example.org"},
                      path \in {"", "/", "/DartStandings/index.html", "/a/b/"}}
    /\ rrRelative \in {"Fall2024Wk1.html", "sub/Fall2024Wk2.html", "",
                       "https://macdleagues.com/Fall2024Wk3.html",
                       "http://example.org/Fall2024Wk4.html", "https:/Wk5.html"}
    /\ absURL = ""
    /\ lPc = "resolve"

CallResolveRelativeURL ==
    /\ lPc = "resolve"
    /\ absURL' = ResolveRelativeURL(rrBase, rrRelative)
    /\ lPc' = "resolved"
    /\ UNCHANGED <<standingsURLs, jLink, week, served, htmlFiles, csvFiles, weeklyStats,
                   rrBase, rrRelative, normVars, numVars, exVars, tlVars, recVars,
                   schVars>>

SpecResolveURL == InitResolveURL /\ [][CallResolveRelativeURL]_vars

-----------------------------------------------------------------------------
(* Properties of the canonicalizer *)

\* C1: NormalizeTeamName is idempotent: whatever a call returns for a name,
\* a call on that result returns the result itself.
C1_Idempotent == nPc = "done" => nAgain = nRes

\* a name that the call changed beyond its letter case, and whose result is
\* then left alone
C1_Witness == nPc = "done" /\ nRes \notin {nName, ToUpper(nName)} /\ nAgain = nRes

\* C2: NormalizeTeamName is deterministic: two calls on the same name return
\* the same string.
C2_Deterministic == nPc \in {"two", "done"} => nRes2 = nRes

\* The condition of each rule of NormalizeTeamName, on the uppercased name, in
\* the claimed priority order: Bridge Inn 1, Bridge Inn 2, Sir James Pub 1,
\* Sir James Pub 2, Sir James Pub 3, the alias table.
C3_Rule(i, U) ==
    CASE i = 1 -> Contains(U, "BRIDGE INN 1") \/ (Contains(U, "BRIDGE INN") /\ Contains(U, "1"))
      [] i = 2 -> Contains(U, "BRIDGE INN 2") \/ (Contains(U, "BRIDGE INN") /\ Contains(U, "2"))
      [] i = 3 -> \/ Contains(U, "SIR JAMES PUB 1")
                  \/ (Contains(U, "SIR JAMES PUB") /\ Contains(U, "1") /\ ~Contains(U, "DOS"))
      [] i = 4 -> \/ Contains(U, "SIR JAMES PUB 2")
                  \/ /\ Contains(U, "SIR JAMES PUB")
                     /\ (Contains(U, "2") \/ Contains(U, "DOS"))
                     /\ ~Contains(U, "3")
      [] i = 5 -> Contains(U, "SIR JAMES PUB 3") \/ (Contains(U, "SIR JAMES PUB") /\ Contains(U, "3"))
      [] i = 6 -> LET c == StripNonAlnum(U) IN \E k \in DOMAIN replacements : Contains(c, k)

\* the earliest rule a name satisfies; 7 is the uppercase fallback
C3_Earliest(U) ==
    IF C3_Rule(1, U) THEN 1
    ELSE IF C3_Rule(2, U) THEN 2
    ELSE IF C3_Rule(3, U) THEN 3
    ELSE IF C3_Rule(4, U) THEN 4
    ELSE IF C3_Rule(5, U) THEN 5
    ELSE IF C3_Rule(6, U) THEN 6
    ELSE 7

\* what rule i returns
C3_Outcome(i, U) ==
    CASE i = 1 -> {"BRIDGE INN 1"}
      [] i = 2 -> {"BRIDGE INN 2"}
      [] i = 3 -> {"SIR JAMES PUB 1"}
      [] i = 4 -> {"SIR JAMES PUB 2"}
      [] i = 5 -> {"SIR JAMES PUB 3"}
      [] i = 6 -> LET c == StripNonAlnum(U)
                  IN  {replacements[k] : k \in {a \in DOMAIN replacements : Contains(c, a)}}
      [] i = 7 -> {U}

\* C3: the rules apply in strict priority order and the first satisfied rule
\* decides: the result is the outcome of the earliest rule whose condition the
\* name satisfies, whatever later rules it satisfies as well.
C3_PriorityOrder ==
    nPc # "init" =>
        LET U == ToUpper(nName) IN nRes \in C3_Outcome(C3_Earliest(U), U)

\* a name that satisfies several rules (here the conditions of both Bridge Inn
\* rules and those of a later family or the alias table) and got the first
C3_Witness ==
    /\ nPc = "one"
    /\ nRes = "BRIDGE INN 1"
    /\ C3_Rule(1, ToUpper(nName)) /\ C3_Rule(2, ToUpper(nName))

\* C4: known aliases map to their fixed canonical form: a name that is a key
\* of the alias table, in any letter case, is returned as that key's value.
C4_KnownAliases ==
    nPc # "init" =>
        \A k \in DOMAIN replacements : ToUpper(nName) = k => nRes = replacements[k]

-----------------------------------------------------------------------------
(* Properties of the sanitizer and of the numeric cells of a table row *)

C5_Kept(s) == {i \in 1..Len(s) : IsDigit(Char(s, i)) \/ Char(s, i) = "."}

\* C5: sanitizeNumberString is a pure filter: its result holds digits and '.'
\* only, and it is the input's digits and dots, each of them, in their order
\* (so a subsequence of the input as long as the input has digits and dots).
C5_PureFilter ==
    pPc # "init" =>
        LET kept == C5_Kept(tok)
        IN  /\ \A k \in 1..Len(san) : IsDigit(Char(san, k)) \/ Char(san, k) = "."
            /\ Len(san) = Cardinality(kept)
            /\ \A i \in kept :
                 Char(san, Cardinality({j \in kept : j <= i})) = Char(tok, i)

\* a cell text that lost characters and kept a dot among its digits
C5_Witness ==
    /\ pPc = "sanitized"
    /\ san # tok /\ Len(san) > 1
    /\ Contains(san, ".")

\* C6: a numeric cell whose sanitized text does not parse as a number of the
\* field's type leaves that field at zero.
C6_UnparsableIsZero ==
    pPc = "parsed" =>
        LET t == sanitizeNumberString(tok)
            failed == IF fld \in FloatFields THEN ParseFloat(t).err # "none"
                                             ELSE Atoi(t).err # "none"
        IN  failed => FieldOf(row, fld) = "0"

-----------------------------------------------------------------------------
(* Properties of the section locator *)

\* the call has cut its section out of the document
C7_Located == pc \in {"table", "lines", "post", "done"} /\ startIndex # -1

\* C7: the end rule of the section locator: when the end marker does not occur
\* at or after the start offset, the section is the document text from the
\* start offset to the end of the document.
C7_SectionRunsToEnd ==
    (C7_Located /\ ~Contains(Slice(htmlContent, startIndex, Len(htmlContent)), endMarker))
        => sectionHTML = Slice(htmlContent, startIndex, Len(htmlContent))

\* marker m occurs in text at offset i and nowhere before
C8_FirstAt(text, m, i) ==
    /\ i >= 0
    /\ HasPrefixAt(text, i, m)
    /\ \A j \in 0..(i - 1) : ~HasPrefixAt(text, j, m)

\* C8: the start rule of the section locator: the section starts at the first
\* occurrence of the primary marker when the document holds it, else at the
\* first occurrence of the first alternate marker, in list order, that the
\* document holds; a document without any marker gives two empty lists.
C8_StartRule ==
    pc # "start" =>
        LET alts == {k \in 1..Len(alternatePossibleMarkers) :
                        Contains(htmlContent, alternatePossibleMarkers[k])}
        IN  IF Contains(htmlContent, startMarker)
            THEN C8_FirstAt(htmlContent, startMarker, startIndex)
            ELSE IF alts # {}
            THEN \E k \in alts :
                    /\ \A j \in alts : k <= j
                    /\ C8_FirstAt(htmlContent, alternatePossibleMarkers[k], startIndex)
            ELSE /\ startIndex = -1
                 /\ pc = "done"
                 /\ playerStats = <<>> /\ teamStats = <<>>

\* a document without the primary marker in which a later alternate of the
\* list occurs before an earlier one, and the earlier one of the list is taken
C8_Witness ==
    /\ pc = "end"
    /\ ~Contains(htmlContent, startMarker)
    /\ \E j, k \in 1..Len(alternatePossibleMarkers) :
          /\ j < k
          /\ Contains(htmlContent, alternatePossibleMarkers[j])
          /\ Contains(htmlContent, alternatePossibleMarkers[k])
          /\ Index(htmlContent, alternatePossibleMarkers[k])
                < Index(htmlContent, alternatePossibleMarkers[j])
          /\ startIndex = Index(htmlContent, alternatePossibleMarkers[j])

\* C9: ExtractPlayerStats never panics, whatever the document.
C9_NeverPanics == pc # "panic"

-----------------------------------------------------------------------------
(* Properties of the table extractor *)

\* the row sets the team context: at most 3 td cells, and its text passes
\* isTeamNameLine
C10_SetsTeam(tr) ==
    /\ Cardinality({i \in 1..Len(tr) : tr[i].tag = "td"}) <= 3
    /\ isTeamNameLine(RowText(tr))

\* the team context of row r of table t: the text of the last row after the
\* header row and before r that sets the team, else the team of the header,
\* else the default team (the empty string)
C10_Context(t, r) ==
    LET teamRows == {q \in 2..(r - 1) : C10_SetsTeam(doc[t][q])}
    IN  IF teamRows # {}
        THEN TrimSpace(RowText(doc[t][CHOOSE q \in teamRows : \A x \in teamRows : x <= q]))
        ELSE teamNameFromHeader(tableHeaders(doc[t]))

\* the call returned records read from an accepted statistics table
C10_FromTable == pc = "done" /\ pass = "table"

-----------------------------------------------------------------------------
(* Properties of the order of the extraction strategies *)

\* the records of a list without their team
C11_Teamless(stats) == [i \in 1..Len(stats) |-> [stats[i] EXCEPT !.Team = ""]]

\* the records of a pass over the document, without origin
C11_Stats(found) == [i \in 1..Len(found) |-> found[i].stat]

\* what each strategy yields on the section of the call
C11_TableScan == C11_Stats(scanTables(doc, 1, ""))
C11_NameHeuristic == C11_Stats(directRows(doc, 1, 1, ""))
C11_Lines == scanLines(SplitLines(sectionHTML), 1, "").players

\* C11: the strategies are tried in the order table scan, first-name
\* heuristic, line-by-line parsing, each later one only when all earlier ones
\* found no player: the list of the call is the list of the first strategy in
\* that order that found a player (of the last when none did), and the
\* first-name heuristic hands over its records with the default team.
C11_StrategyOrder ==
    (pc \in {"lines", "post", "done"} /\ startIndex # -1) =>
        LET chosen == IF C11_TableScan # <<>> THEN "table"
                      ELSE IF C11_NameHeuristic # <<>> THEN "direct"
                      ELSE "lines"
        IN  /\ (pc = "lines") => (chosen = "lines" /\ playerStats = <<>>)
            /\ (pc # "lines") =>
                 /\ C11_Teamless(playerStats) =
                       C11_Teamless(CASE chosen = "table" -> C11_TableScan
                                      [] chosen = "direct" -> C11_NameHeuristic
                                      [] chosen = "lines" -> C11_Lines)
                 /\ pass \in {chosen, "none"}
                 /\ (pass = "none") <=> (playerStats = <<>>)
            /\ (pc = "post" /\ pass = "direct") =>
                 \A i \in 1..Len(playerStats) : playerStats[i].Team = ""

\* the table scan found nothing in a section with rows, and the first-name
\* heuristic found a player
C11_Witness ==
    /\ pc = "post"
    /\ pass = "direct"
    /\ C11_TableScan = <<>>
    /\ playerStats # <<>>

-----------------------------------------------------------------------------
(* Properties of the team-name-line heuristic *)

C12_Digits(line) == {i \in 1..Len(line) : IsDigit(Char(line, i))}

C12_Stoplist == {"Player", "Team Totals", "PPD", "MPR", "Wins", "Games"}

\* C12: a line of trimmed length 3..40 without the venue name BRIDGE INN is a
\* team-name line only if it has a letter, has at most one digit, that digit
\* being 1 or 2, and has none of the stoplist words.
C12_TeamLineOnlyIf ==
    LET line == TrimSpace(tlLine)
    IN  (/\ tlPc = "done"
         /\ Len(line) >= 3 /\ Len(line) <= 40
         /\ ~Contains(ToUpper(line), "BRIDGE INN")
         /\ tlRes)
        => /\ \E i \in 1..Len(line) : IsUpper(Char(line, i)) \/ IsLower(Char(line, i))
           /\ Cardinality(C12_Digits(line)) <= 1
           /\ \A i \in C12_Digits(line) : Char(line, i) \in {"1", "2"}
           /\ \A w \in C12_Stoplist : ~Contains(line, w)

-----------------------------------------------------------------------------
(* Properties of the line extractor *)

\* the call went through the line-by-line pass and returned
C13_LinePassDone == pc = "done" /\ startIndex # -1 /\ pass \in {"lines", "none"}

\* C13: the line "JOHN DOE AA 10 7 2.50 1.20 1 100 50" of a section that the
\* line extractor processes yields a record with name JOHN DOE, rating AA,
\* 10 games played, 7 won, PPD 2.50, MPR 1.20, 1 hat trick, high score 100 and
\* high checkout 50.
C13_ScenarioB ==
    (C13_LinePassDone /\ Contains(sectionHTML, "\n" \o ScenarioBLine \o "\n"))
        => \E i \in 1..Len(playerStats) :
              /\ playerStats[i].PlayerName = "JOHN DOE"
              /\ playerStats[i].SancPd = "AA"
              /\ playerStats[i].GamesPlayed = "10"
              /\ playerStats[i].GamesWon = "7"
              /\ playerStats[i].PPD = "2.5"
              /\ playerStats[i].MPR = "1.2"
              /\ playerStats[i].HatTricks = "1"
              /\ playerStats[i].HighScore = "100"
              /\ playerStats[i].HighCheckout = "50"

\* C14: the table extractor and the line extractor agree: the record of a
\* 9-cell row and the record of the same values written as one line are equal
\* in every field but the team.
C14_TableLineAgree ==
    recPc = "done" => [recRow EXCEPT !.Team = ""] = [recLine EXCEPT !.Team = ""]

\* the trimmed lines of the section that parseTeamTotalsLine parses into a
\* team record: "Team Totals:" followed by at least four data fields
C15_TotalsLines ==
    LET lines == SplitLines(sectionHTML)
    IN  {TrimSpace(lines[k]) : k \in {j \in 1..Len(lines) :
            parseTeamTotalsLine(TrimSpace(lines[j])).TeamName # ""}}

\* C15: when the line-by-line pass runs over a section, every line holding
\* "Team Totals:" and four data fields gives a team record with those four
\* values in the returned team list.
C15_TeamTotals ==
    C13_LinePassDone =>
        \A line \in C15_TotalsLines :
            \E i \in 1..Len(teamStats) :
                [teamStats[i] EXCEPT !.TeamName = "TEAM"] = parseTeamTotalsLine(line)

-----------------------------------------------------------------------------
(* Properties of the schedule *)

\* the entries a text yields, line by line: the matchups of a line that is not
\* a header carry the week and the date of the last header above the line,
\* and a line yields none unless that week is positive
C16_Entries(text) ==
    LET split == SplitLines(text)
        lines == [k \in 1..Len(split) |-> TrimSpace(split[k])]
        \* the headers: the number of the line and the match of weekDateRegex
        headers == {h \in {<<k, weekDateRegex(lines[k])>> : k \in 1..Len(split)} : h[2].ok}
        above(k) == {h \in headers : h[1] < k}
        HeaderOf(k) == CHOOSE h \in above(k) : \A g \in above(k) : g[1] <= h[1]
        WeekOf(k) == IF above(k) = {} THEN 0 ELSE DecimalValue(HeaderOf(k)[2].week)
        DateOf(k) == IF above(k) = {} THEN "" ELSE HeaderOf(k)[2].date
        EntriesOf(k) ==
            IF (\E h \in headers : h[1] = k) \/ ~(WeekOf(k) > 0) THEN <<>>
            ELSE LET ms == matchupRegex(lines[k])
                 IN  [n \in 1..Len(ms) |->
                        [Week |-> WeekOf(k), Date |-> DateOf(k),
                         HomeTeam |-> TrimSpace(ms[n].home),
                         AwayTeam |-> TrimSpace(ms[n].away)]]
        RECURSIVE From(_)
        From(k) == IF k > Len(split) THEN <<>> ELSE EntriesOf(k) \o From(k + 1)
    IN  From(1)

\* C16: the schedule extracted from the text of the PDF holds the matchups
\* that stand below a week/date header whose week is positive, each with the
\* week and the date of the last header above it, in the order of the lines and
\* of the matchups within a line; every entry has a positive week; and the
\* line THE HUTCH vs CAPITALIZE under the header of week 3 yields the entry of
\* week 3 with THE HUTCH at home and CAPITALIZE away.
C16_WeekContext ==
    (sPc = "loop" /\ readOk) =>
        /\ \E expected \in {C16_Entries(pdfText)} :
                schedules = IF expected # <<>> THEN expected ELSE ParseScheduleManually
        /\ \A n \in 1..Len(schedules) : schedules[n].Week > 0
        /\ pdfText = "Week 3 - October 6, 2024\nTHE HUTCH vs CAPITALIZE"
            => schedules = <<[Week |-> 3, Date |-> "October 6, 2024",
                              HomeTeam |-> "THE HUTCH", AwayTeam |-> "CAPITALIZE"]>>

\* a text whose first header has week 0 and whose second has week 3, with two
\* matchups in the line below them
C16_Witness ==
    /\ sPc = "loop" /\ readOk
    /\ pdfText = "Week 0 - September 1, 2024\nWeek 3 - October 6, 2024\n"
                 \o "  GRAND AVE @ HARBOR HILLS, REDHEADS vs. SPEARS N BEERS"
    /\ schedules = <<[Week |-> 3, Date |-> "October 6, 2024",
                      HomeTeam |-> "GRAND AVE", AwayTeam |-> "HARBOR HILLS"],
                     [Week |-> 3, Date |-> "October 6, 2024",
                      HomeTeam |-> "REDHEADS", AwayTeam |-> "SPEARS N BEERS"]>>

\* C17: the line REDHEADS BYE under the header of week 3 makes the extracted
\* schedule exactly the entry of week 3 with REDHEADS at home and BYE away,
\* and FindOpponent for REDHEADS in week 3 returns BYE.
C17_ByeWeek ==
    (sPc \in {"loop", "done"} /\ readOk
        /\ pdfText = "Week 3 - October 6, 2024\nREDHEADS BYE") =>
        /\ schedules = <<[Week |-> 3, Date |-> "October 6, 2024",
                          HomeTeam |-> "REDHEADS", AwayTeam |-> "BYE"]>>
        /\ (sPc = "done" /\ foTeam = "REDHEADS" /\ foWeek = 3) => opponent = "BYE"

C18_Roster ==
    <<"THE HUTCH", "CAPITALIZE", "GRAND AVE", "HARBOR HILLS", "HARBOR HILLS TOO",
      "HILLS HAS EYES", "REDHEADS", "SIR JAMES PUB DOS", "SPEARS N BEERS">>

\* the schedule is the static fallback: the download failed, the text could not
\* be read, or the text yielded no entry
C18_IsFallback ==
    \/ sPc = "read" /\ schedules # <<>>
    \/ sPc = "loop" /\ (~readOk \/ ExtractScheduleFromText(pdfText) = <<>>)

\* C18: whichever call of ParseScheduleManually produced it, the static
\* schedule is the same list: for each week 1..26 in order and each even
\* roster index i with i+1 below the roster length in order, one entry that
\* pairs roster[i] with roster[i+1], roster[i] at home in an even week and
\* roster[i+1] at home in an odd week, and nothing else.
C18_StaticSchedule ==
    C18_IsFallback =>
        LET pairs == {i \in 0..(Len(C18_Roster) - 2) : i % 2 = 0}
            per == Cardinality(pairs)
        IN  /\ Len(schedules) = 26 * per
            /\ \A w \in 1..26 : \A i \in pairs :
                    LET e == schedules[(w - 1) * per + (i \div 2) + 1]
                    IN  /\ e.Week = w
                        /\ e.HomeTeam =
                             (IF w % 2 = 0 THEN C18_Roster[i + 1] ELSE C18_Roster[i + 2])
                        /\ e.AwayTeam =
                             (IF w % 2 = 0 THEN C18_Roster[i + 2] ELSE C18_Roster[i + 1])

\* the fallback after a failed download, and the fallback after a text without
\* entries
C18_Witness ==
    /\ sPc = "loop"
    /\ \/ ~pdfExists /\ ~downloadOk
       \/ readOk /\ pdfText = "REDHEADS BYE"
    /\ Len(schedules) = 104
    /\ schedules[1] = [Week |-> 1, Date |-> "Week 1, 2024",
                       HomeTeam |-> "CAPITALIZE", AwayTeam |-> "THE HUTCH"]
    /\ schedules[104] = [Week |-> 26, Date |-> "Week 26, 2024",
                         HomeTeam |-> "REDHEADS", AwayTeam |-> "SIR JAMES PUB DOS"]

\* C19: on every path through the schedule stage the schedule handed to the
\* standings loop is the list extracted from the text of the PDF if the text
\* was read and yielded an entry, and the static fallback otherwise; it is
\* never empty; and every run of the stage reaches the loop.
C19_Selection ==
    /\ [](sPc = "loop" =>
            schedules = IF readOk /\ ExtractScheduleFromText(pdfText) # <<>>
                        THEN ExtractScheduleFromText(pdfText)
                        ELSE ParseScheduleManually)
    /\ [](sPc \in {"loop", "done"} => schedules # <<>>)
    /\ <>(sPc = "loop")

\* a downloaded PDF whose text yields an entry
C19_Witness ==
    /\ sPc = "loop" /\ ~pdfExists /\ downloadOk /\ readOk
    /\ Len(schedules) = 1 /\ schedules[1].Date = "October 6, 2024"

\* the canonical forms of two names coincide
C20_SameTeam(a, b) == NormalizeTeamName(a) = NormalizeTeamName(b)

\* C20: FindOpponent returns the raw name of the other side of the first entry
\* of the list whose week is the given week and whose home or away name has the
\* canonical form of the team, and "Unknown" if the list has no such entry.
C20_FirstMatch ==
    sPc = "done" =>
        LET Hit(n) == /\ schedules[n].Week = foWeek
                      /\ \/ C20_SameTeam(foTeam, schedules[n].HomeTeam)
                         \/ C20_SameTeam(foTeam, schedules[n].AwayTeam)
            hits == {n \in 1..Len(schedules) : Hit(n)}
            first == CHOOSE n \in hits : \A m \in hits : n <= m
        IN  opponent = IF hits = {} THEN "Unknown"
                       ELSE IF C20_SameTeam(foTeam, schedules[first].HomeTeam)
                       THEN schedules[first].AwayTeam
                       ELSE schedules[first].HomeTeam


\* C21: when the first entry of the week that names the team has a BYE on the
\* other side, in any letter case, FindOpponent returns exactly "BYE".
C21_ByeRule ==
    sPc = "done" =>
        LET Hit(n) == /\ schedules[n].Week = foWeek
                      /\ \/ C20_SameTeam(foTeam, schedules[n].HomeTeam)
                         \/ C20_SameTeam(foTeam, schedules[n].AwayTeam)
            hits == {n \in 1..Len(schedules) : Hit(n)}
            first == CHOOSE n \in hits : \A m \in hits : n <= m
            other == IF C20_SameTeam(foTeam, schedules[first].HomeTeam)
                     THEN schedules[first].AwayTeam
                     ELSE schedules[first].HomeTeam
        IN  (hits # {} /\ ToUpper(other) = "BYE") => opponent = "BYE"


-----------------------------------------------------------------------------
(* Properties of the standings loop *)

\* C22: in every bundle the loop has built, each player's team is in canonical
\* form: NormalizeTeamName returns the team itself, whichever strategy produced
\* the record.
C22_CanonicalTeam ==
    \A b \in 1..Len(weeklyStats) :
        \A i \in 1..Len(weeklyStats[b].PlayerStats) :
            LET player == weeklyStats[b].PlayerStats[i]
            IN  NormalizeTeamName(player.Team) = {player.Team}

\* C23: in every bundle the loop has built, each player's opponent is "BYE",
\* "Unknown" or a team name in canonical form, with the extracted schedule and
\* with the static schedule.
C23_OpponentValue ==
    \A b \in 1..Len(weeklyStats) :
        \A i \in 1..Len(weeklyStats[b].PlayerStats) :
            LET player == weeklyStats[b].PlayerStats[i]
            IN  \/ player.Opponent \in {"BYE", "Unknown"}
                \/ NormalizeTeamName(player.Opponent) = {player.Opponent}


-----------------------------------------------------------------------------
(* Further properties of the extraction *)

\* C24: every record that ExtractPlayerStats returns, from the table pass and
\* from the line pass, has non-negative gamesPlayed, gamesWon, ppd, mpr,
\* hatTricks, highScore and highCheckout.
C24_NonNegative ==
    pc = "done" =>
        \A i \in 1..Len(playerStats) :
            \A field \in {"GamesPlayed", "GamesWon", "PPD", "MPR",
                          "HatTricks", "HighScore", "HighCheckout"} :
                Head(playerStats[i][field]) # "-"


\* the lines of the section that are team-name lines naming the Bridge Inn or
\* the Sir James Pub family with a unit digit
C25_FamilyLines ==
    LET lines == SplitLines(sectionHTML)
    IN  {k \in 1..Len(lines) :
            LET line == TrimSpace(lines[k])
            IN  /\ isTeamNameLine(line)
                /\ Contains(ToUpper(line), "BRIDGE INN") \/ Contains(ToUpper(line), "SIR JAMES PUB")
                /\ \E d \in {"1", "2", "3"} : Contains(line, d)}

\* C25: for a team-name line of the Bridge Inn or Sir James Pub family with a
\* unit digit 1, 2 or 3, extractTeamName returns what NormalizeTeamName returns
\* for the line, and the records of the player lines that follow it carry that
\* string as their team.
C25_SameDisambiguation ==
    (pc = "done" /\ pass = "lines") =>
        \A k \in C25_FamilyLines :
            LET lines == SplitLines(sectionHTML)
                line == TrimSpace(lines[k])
                following == Len(scanLines(lines, k + 1, "").players)
            IN  /\ NormalizeTeamName(line) = {extractTeamName(line)}
                /\ \A i \in (Len(playerStats) - following + 1)..Len(playerStats) :
                       NormalizeTeamName(line) = {playerStats[i].Team}


-----------------------------------------------------------------------------
(* Properties of the output and of the links *)

\* C26: the CSV file of a bundle holds the header row and then one row per
\* player, in the order of the bundle, and splitting a row on commas yields the
\* 12 columns, of which the second, third and fourth are the player, the team
\* and the opponent.  The file of the week of the last bundle is the one
\* written from it.
C26_CsvRows ==
    weeklyStats # <<>> =>
        LET bundle == weeklyStats[Len(weeklyStats)]
            text == csvFiles[bundle.Week].content
            rows == SplitLines(text)
            Columns(r) ==
                LET commas == PositionsOf(r, ",", 1, Len(r))
                    n == Len(commas)
                IN  [k \in 1..(n + 1) |->
                        SubSeq(r, (IF k = 1 THEN 1 ELSE commas[k - 1] + 1),
                                  (IF k = n + 1 THEN Len(r) ELSE commas[k] - 1))]
        IN  /\ Len(rows) = Len(bundle.PlayerStats) + 2
            /\ rows[Len(rows)] = ""
            /\ Columns(rows[1]) = <<"Week", "Player", "Team", "Opponent", "SancPd",
                                    "GamesPlayed", "GamesWon", "PPD", "MPR", "HatTricks",
                                    "HighScore", "HighCheckout">>
            /\ \A i \in 1..Len(bundle.PlayerStats) :
                   LET fields == Columns(rows[i + 1])
                   IN  /\ Len(fields) = 12
                       /\ fields[2] = bundle.PlayerStats[i].PlayerName
                       /\ fields[3] = bundle.PlayerStats[i].Team
                       /\ fields[4] = bundle.PlayerStats[i].Opponent
                       /\ fields[5] = bundle.PlayerStats[i].SancPd
                       /\ fields[6] = bundle.PlayerStats[i].GamesPlayed
                       /\ fields[12] = bundle.PlayerStats[i].HighCheckout


\* C27: for a base that starts with "https:/" but not with "https://" (or with
\* "http:/" but not with "http://") and a relative URL that is not absolute,
\* the result is built on the base rewritten to "https://" (or "http://")
\* followed by the rest of the base, so it starts with the well-formed prefix
\* followed by the host of the base (11 characters in the bases drawn) and
\* holds no second protocol prefix; a relative URL that is already absolute is
\* returned unchanged.
C27_RepairsProtocol ==
    lPc = "resolved" =>
        LET HasPrefix(s, prefix) == HasPrefixAt(s, 0, prefix)
            absolute == HasPrefix(rrRelative, "http://") \/ HasPrefix(rrRelative, "https://")
            Repaired(bad, good) ==
                (HasPrefix(rrBase, bad) /\ ~HasPrefix(rrBase, good) /\ ~absolute) =>
                    /\ HasPrefix(absURL, good \o SubSeq(rrBase, Len(bad) + 1, Len(bad) + 11))
                    /\ ~Contains(SubSeq(absURL, Len(good) + 1, Len(absURL)), ":/")
        IN  /\ absolute => absURL = rrRelative
            /\ Repaired("https:/", "https://")
            /\ Repaired("http:/", "http://")


-----------------------------------------------------------------------------
(* Properties of the duplicated code and of the static schedule *)

\* C28: the schedule functions of the single-file program and of the parser
\* package agree: on the text read from the PDF, ExtractScheduleFromText
\* returns the same list, and on the arguments of a call, FindOpponent can
\* return the same strings.
C28_CopiesAgree ==
    /\ (sPc \in {"loop", "done"} /\ readOk) =>
           ExtractScheduleFromText_main(pdfText) = ExtractScheduleFromText(pdfText)
    /\ sPc = "done" =>
           FindOpponent_main(foTeam, foWeek, schedules)
               = FindOpponent(foTeam, foWeek, schedules)


\* the teams of the fixed roster
C29_Teams == {C18_Roster[i] : i \in 1..Len(C18_Roster)}

\* C29: in the static schedule every team of the roster is in exactly one
\* entry of every week 1..26, so FindOpponent returns for it another team of
\* the roster, never "Unknown", and the opponent's opponent is the team.
C29_StaticCoverage ==
    (sPc = "loop" /\ schedules = ParseScheduleManually) =>
        \A tm \in C29_Teams, wk \in 1..26 :
            /\ Cardinality({n \in 1..Len(schedules) :
                               /\ schedules[n].Week = wk
                               /\ tm \in {schedules[n].HomeTeam, schedules[n].AwayTeam}}) = 1
            /\ \A opp \in FindOpponent(tm, wk, schedules) :
                   /\ opp \in C29_Teams \ {tm}
                   /\ FindOpponent(opp, wk, schedules) = {tm}


-----------------------------------------------------------------------------
(* Properties of the standings loop across links *)

\* the week number main computes for the link at position n (j = n - 1)
C30_WeekOf(n) ==
    IF ExtractWeekNumber(standingsURLs[n]) > 0
    THEN ExtractWeekNumber(standingsURLs[n])
    ELSE n

\* C30: within one run the page parsed for a link is the page of that link,
\* the CSV file written for one link is not overwritten while another link is
\* in process, and the week numbers of distinct links of the index page are
\* distinct.
C30_LinkIsolation ==
    /\ [](/\ lPc = "extract" => standingsURLs[served] = standingsURLs[jLink]
          /\ \A a, b \in 1..Len(standingsURLs) :
                 standingsURLs[a] # standingsURLs[b] => C30_WeekOf(a) # C30_WeekOf(b))
    /\ [][\A w \in DOMAIN csvFiles :
              standingsURLs[csvFiles'[w].link] = standingsURLs[csvFiles[w].link]]_vars

=============================================================================
